---- MODULE Spec2Model ----
(***************************************************************************)
(* Model of the registry benchmark's workload generator,                   *)
(* src/internal/aasregistry/benchmark_results/benchmark.py.                *)
(*                                                                         *)
(* main() is modelled once per run r \in Runs: two executions of the       *)
(* script with the same configuration and the same SEED, so that what one  *)
(* run does can be compared with what a second run does.  Spec executes    *)
(* run 1 alone against an arbitrary target; SpecRerun executes both runs   *)
(* against a target that answers every request with a success status.      *)
(*                                                                         *)
(* Python values: an optional value (None or x) is the sequence <<>> or    *)
(* <<x>>; a list is a sequence; a dict with fixed keys is a record.        *)
(***************************************************************************)
EXTENDS Integers, Sequences, FiniteSets, TLC

\* ------------------------------------------------------------------ bounds
\* Largest TOTAL_ITERS explored (the source runs 100000 iterations).
MaxIters == 2
\* Resolution of random(): the stream yields u \in 0..RandRes-1, read as u/RandRes.
RandRes == 5
\* Largest number of polls wait_for_http makes before its timeout (the source's 180 s
\* of rounds of 2 s and more allow up to 90).
MaxPolls == 2
\* Largest number of records in a bounded input of the metrics tool.
MaxRecords == 3

Runs == {1, 2}
Rand == 0 .. (RandRes - 1)

None == <<>>
Some(x) == <<x>>

\* ------------------------------------------------------------------ config
\* benchmark.py:19
DISCOVERY_URL == "http://localhost:5004/shell-descriptors"

\* list(OP_WEIGHTS.keys()), benchmark.py:27-32 and 267
ops == <<"post", "get", "search_all", "search_limit100">>

\* OP_WEIGHTS.values() as relative integer weights: 0.4/0.2/0.2/0.2 is 2:1:1:1.
\* The second choice gives the searches weight zero.
WeightChoices == {<<2, 1, 1, 1>>, <<1, 1, 0, 0>>}

\* Identifiers are a prefix and the uuid4 value; the templates' own ids have uuid 0.
AasId(k) == [prefix |-> "https://example.org/aas/", uuid |-> k]
SubmodelId(k) == [prefix |-> "https://example.org/submodel/", uuid |-> k]

\* The body templates, reduced to the fields main() reads or writes: "id" and the
\* "id" of every entry of "submodelDescriptors" (absent in data: the empty list).
data_big ==
    [id |-> [prefix |-> "https://iese.fraunhofer.de/ids/aas/sdfgbfdb", uuid |-> 0],
     submodelDescriptors |->
        << [id |-> [prefix |-> "https://iese.fraunhofer.de/ids/aas/yxcyxc", uuid |-> 0]] >>]

data ==
    [id |-> [prefix |-> "https://id.idta-showcase.net/namespace/InduCoreIC5000/v1", uuid |-> 0],
     submodelDescriptors |-> << >>]

\* HTTP status codes the target answers with.
Statuses == {200, 404, 600}

\* What one call of session.post / session.get ends in: a transport exception
\* (raised) or a response with a status code and a body that is JSON or not.
TransportError == [raised |-> TRUE, status_code |-> 0, is_json |-> FALSE]
Response(status_code, is_json) ==
    [raised |-> FALSE, status_code |-> status_code, is_json |-> is_json]
Outcomes ==
    {TransportError, Response(200, TRUE), Response(200, FALSE), Response(404, TRUE),
     Response(600, FALSE)}

\* ------------------------------------------------------------------ state
VARIABLES
    TOTAL_ITERS,          \* config, benchmark.py:21
    PREWARM_ITERS,        \* config, benchmark.py:25
    OP_WEIGHTS,           \* config, benchmark.py:27
    LOG_REQUEST_DETAILS,  \* config, benchmark.py:37
    payload_template,     \* benchmark.py:220
    stream,               \* the values random.Random(SEED) has yielded so far, in order
    uuids,                \* how many uuid4() values have been generated
    pc,                   \* pc[r]: where main() of run r stands
    stack,                \* stack[r]: the compose stack, "down" or "up"
    cleanups,             \* cleanups[r]: how often cleanup() has run
    i,                    \* i[r]: the loop index, the next iteration
    rngPos,               \* rngPos[r]: how many values rng has consumed
    logs,                 \* logs[r]
    descriptor_pool,      \* descriptor_pool[r]
    submodel_pool,        \* submodel_pool[r]
    drawn,                \* drawn[r]: per iteration, op as rng.choices returned it (None in prewarm)
    sent,                 \* sent[r]: the calls made through session, in order, each with its result
    log_file,             \* log_file[r]: what has been written to LOG_FILE, in order
    polls,                \* polls[r]: the polls wait_for_http has made so far (its loop's progress)
    http_ready,           \* http_ready[r]: what wait_for_http returned (None before it has)
    timeline,             \* timeline[r]: per iteration, the statements executed, in order
    signalled             \* signalled[r]: "no", or where main() stood when sig_handler was entered

cfgVars == <<TOTAL_ITERS, PREWARM_ITERS, OP_WEIGHTS, LOG_REQUEST_DETAILS, payload_template>>
runVars == <<pc, stack, cleanups, i, rngPos, logs, descriptor_pool, submodel_pool, drawn, sent,
             log_file, polls, http_ready, timeline, signalled>>

\* The state of one invocation of the metrics tool,
\* src/internal/submodelrepository/integration_tests/benchmark/plot_submodel_benchmark.py.
VARIABLES
    input_file,           \* the JSON document at args.input
    unit,                 \* args.unit
    plot_pc,              \* where main() of the tool stands ("idle": it is not run)
    records,              \* records of main(): None before load_records has returned
    files,                \* the files written to output_dir: name -> None or Some(content)
    error                 \* the exception that ended the invocation, None without one

plotVars == <<input_file, unit, plot_pc, records, files, error>>
benchVars == <<cfgVars, stream, uuids, runVars>>

vars == <<cfgVars, stream, uuids, runVars, plotVars>>

\* The files the tool writes, by the order of their names (00_ ... 05_), all unwritten.
FileNames == <<"summary_report", "cumulative_runtime", "latency_distribution",
               "throughput_over_time", "success_rate", "percentile_comparison">>
NoFiles == [f \in {FileNames[k] : k \in 1 .. Len(FileNames)} |-> None]

\* The metrics tool is not run.
PlotIdle ==
    /\ input_file = None
    /\ unit = "ms"
    /\ plot_pc = "idle"
    /\ records = None
    /\ files = NoFiles
    /\ error = None

\* The configuration of a run of the workload generator.
InitConfig ==
    /\ TOTAL_ITERS \in 0 .. MaxIters
    /\ PREWARM_ITERS \in -1 .. (MaxIters + 1)
    /\ OP_WEIGHTS \in WeightChoices
    /\ LOG_REQUEST_DETAILS \in BOOLEAN
    /\ payload_template \in {data, data_big}

\* main() of the workload generator has not begun.
InitRun ==
    /\ stream = << >>
    /\ uuids = 0
    /\ pc = [r \in Runs |-> "start"]
    /\ stack = [r \in Runs |-> "down"]
    /\ cleanups = [r \in Runs |-> 0]
    /\ i = [r \in Runs |-> 0]
    /\ rngPos = [r \in Runs |-> 0]
    /\ logs = [r \in Runs |-> << >>]
    /\ descriptor_pool = [r \in Runs |-> << >>]
    /\ submodel_pool = [r \in Runs |-> << >>]
    /\ drawn = [r \in Runs |-> << >>]
    /\ sent = [r \in Runs |-> << >>]
    /\ log_file = [r \in Runs |-> << >>]
    /\ polls = [r \in Runs |-> 0]
    /\ http_ready = [r \in Runs |-> None]
    /\ timeline = [r \in Runs |-> << >>]
    /\ signalled = [r \in Runs |-> "no"]

Init == InitConfig /\ InitRun /\ PlotIdle

\* ------------------------------------------------------------------ helpers
Max(a, b) == IF a >= b THEN a ELSE b
Min(a, b) == IF a <= b THEN a ELSE b

\* Mutant of effective_prewarm: the warm-up ends one iteration early.
effective_prewarm_short == Max(0, Min(PREWARM_ITERS, TOTAL_ITERS) - 1)

\* benchmark.py:254
effective_prewarm == Max(0, Min(PREWARM_ITERS, TOTAL_ITERS))

\* itertools.accumulate(weights)[k-1]: the k-th cumulative weight.
RECURSIVE CumWeight(_, _)
CumWeight(weights, k) == IF k = 0 THEN 0 ELSE weights[k] + CumWeight(weights, k - 1)

\* Mutant of choices: the weights are ignored, every element is as likely.
choices_unweighted(population, weights, u) ==
    population[((u * Len(population)) \div RandRes) + 1]

\* rng.choices(population, weights)[0] for the stream value u:
\* population[bisect_right(cum_weights, random() * total, 0, n - 1)], where
\* bisect_right counts the cumulative weights <= random() * total = u * total / RandRes.
choices(population, weights, u) ==
    LET n == Len(population)
        total == CumWeight(weights, n)
        idx == Cardinality({k \in 1 .. (n - 1) : CumWeight(weights, k) * RandRes <= u * total})
    IN  population[idx + 1]

\* rng.choice(seq) for the stream value u: seq[floor(random() * len(seq))].
choice(seq, u) == seq[((u * Len(seq)) \div RandRes) + 1]

\* benchmark.py:80-81.  The encoded text is kept as a value of its own kind: it is
\* not the identifier, and equal identifiers give equal encodings.
url_b64_encode(s) == [b64url |-> s]

\* Mutant of ResponseOk: only the server errors count as failures.
ResponseOkBelow500(status_code) == ~(500 <= status_code /\ status_code < 600)

\* r.ok of the requests library: raise_for_status() raises for 400 <= status < 600.
ResponseOk(status_code) == ~(400 <= status_code /\ status_code < 600)

\* Mutant of DrawOp: no fallback, "get" is kept on an empty pool.
DrawOpNoFallback(pool, u1, u2) ==
    [op |-> choices(ops, OP_WEIGHTS, u1), draws |-> 1,
     drawn |-> Some(choices(ops, OP_WEIGHTS, u1))]

\* benchmark.py:275-278: the operation drawn with stream value u1 (drawn) and, when
\* it is "get" with an empty pool, the fallback drawn with stream value u2; draws is
\* the number of stream values consumed.
DrawOp(pool, u1, u2) ==
    LET op == choices(ops, OP_WEIGHTS, u1)
    IN  IF op = "get" /\ pool = << >>
        THEN [op |-> choice(<<"search_all", "search_limit100">>, u2), draws |-> 2,
              drawn |-> Some(op)]
        ELSE [op |-> op, draws |-> 1, drawn |-> Some(op)]

\* benchmark.py:272-278: the operation of iteration it.
SelectOp(it, pool, u1, u2) ==
    IF it < effective_prewarm
    THEN [op |-> "post", draws |-> 0, drawn |-> None]
    ELSE DrawOp(pool, u1, u2)

\* The request URL: the base, an optional path segment and an optional query string.
Url(path, query) == [base |-> DISCOVERY_URL, path |-> path, query |-> query]

\* Mutant of Request: params is not handed to session.get.
RequestNoParams(it, method, url, limit, cursor, json, out) ==
    [iter |-> it, method |-> method, url |-> url,
     params |-> [limit |-> None, cursor |-> None], json |-> json,
     result |-> [raised |-> out.raised, status_code |-> out.status_code]]

\* A call of session.post / session.get in iteration it: method, url, params and the
\* json body, and how the call ended (an exception raised, or the response's status).
Request(it, method, url, limit, cursor, json, out) ==
    [iter |-> it, method |-> method, url |-> url,
     params |-> [limit |-> limit, cursor |-> cursor], json |-> json,
     result |-> [raised |-> out.raised, status_code |-> out.status_code]]

\* Mutant of OkOf: ok starts as True before the try block.
OkOfInitTrue(out) == IF out.raised THEN TRUE ELSE ResponseOk(out.status_code)

\* benchmark.py:305-311 and the except clause of 357: ok, code and resp_body after
\* the call ended in outcome out.
OkOf(out) == IF out.raised THEN FALSE ELSE ResponseOk(out.status_code)
CodeOf(out) == IF out.raised THEN None ELSE Some(out.status_code)
RespBodyOf(out) ==
    IF out.raised \/ ~LOG_REQUEST_DETAILS THEN None
    ELSE IF out.is_json THEN Some("r.json()") ELSE Some("r.text")

\* benchmark.py:305-311 (325-331, 337-343, 349-355): the statements that follow a call
\* that returned a response: ok and code are read, and the body when details are logged.
AfterResponse ==
    <<"ok_code">> \o (IF LOG_REQUEST_DETAILS THEN <<"resp_body">> ELSE << >>)

\* benchmark.py:284-360: the statements one iteration with operation op executes, in
\* their order in the source, from t0 = time.perf_counter() to t1 = time.perf_counter();
\* out is how the call ended and pool_empty whether descriptor_pool was empty.
Statements(op, out, pool_empty) ==
    <<"t0">>
    \o (IF op = "post"
        THEN <<"deepcopy", "assign_ids", "session_call">>
             \o (IF out.raised THEN << >>
                 ELSE AfterResponse \o (IF OkOf(out) THEN <<"pool_append">> ELSE << >>))
        ELSE IF op = "get"
        THEN <<"choice">>
             \o (IF pool_empty THEN << >>
                 ELSE <<"url_b64_encode", "session_call">>
                      \o (IF out.raised THEN << >> ELSE AfterResponse))
        ELSE <<"session_call">> \o (IF out.raised THEN << >> ELSE AfterResponse))
    \o <<"t1">>

\* Mutant of Entry: "iter" is written one-based.
EntryOneBased(it, op, out, req_url, req_body) ==
    [iter |-> it + 1, op |-> op, code |-> CodeOf(out), ok |-> OkOf(out),
     details |-> IF LOG_REQUEST_DETAILS
                 THEN Some([request_url |-> req_url, request_body |-> req_body,
                            response_body |-> RespBodyOf(out)])
                 ELSE None]

\* benchmark.py:361-372
Entry(it, op, out, req_url, req_body) ==
    [iter |-> it, op |-> op, code |-> CodeOf(out), ok |-> OkOf(out),
     details |-> IF LOG_REQUEST_DETAILS
                 THEN Some([request_url |-> req_url, request_body |-> req_body,
                            response_body |-> RespBodyOf(out)])
                 ELSE None]

\* Mutants of PoolsAfterPost: the new identifier is put in front of the pool; the
\* pools are appended to whatever ok is; the sub-resource identifiers go to the
\* descriptor pool as well.
PoolsAfterPostPrepend(dpool, spool, ok, descriptor_id, payload) ==
    IF ok
    THEN [descriptor_pool |-> <<descriptor_id>> \o dpool, submodel_pool |-> spool]
    ELSE [descriptor_pool |-> dpool, submodel_pool |-> spool]

PoolsAfterPostUnchecked(dpool, spool, ok, descriptor_id, payload) ==
    [descriptor_pool |-> Append(dpool, descriptor_id), submodel_pool |-> spool]

PoolsAfterPostMixed(dpool, spool, ok, descriptor_id, payload) ==
    IF ok
    THEN [descriptor_pool |-> Append(dpool, descriptor_id)
                              \o [k \in 1 .. Len(payload.submodelDescriptors) |->
                                     payload.submodelDescriptors[k].id],
          submodel_pool |-> spool]
    ELSE [descriptor_pool |-> dpool, submodel_pool |-> spool]

\* benchmark.py:313-316: descriptor_pool and submodel_pool after a create whose
\* response gave ok.
PoolsAfterPost(dpool, spool, ok, descriptor_id, payload) ==
    IF ok
    THEN [descriptor_pool |-> Append(dpool, descriptor_id),
          submodel_pool |-> spool \o [k \in 1 .. Len(payload.submodelDescriptors) |->
                                         payload.submodelDescriptors[k].id]]
    ELSE [descriptor_pool |-> dpool, submodel_pool |-> spool]

\* ------------------------------------------------------------------ the seeded stream
\* rng = random.Random(SEED), benchmark.py:261: every run reads the same sequence of
\* values.  Draws(r, k) is what the k-th next value of run r's rng can be: the value
\* the stream has yielded at that place before, or, at a place not read yet, any
\* value, which is fixed by this first reading.
\* (DrawsUnseeded is the mutant random.Random(): a run does not read the values an
\* earlier run has read.)
DrawsUnseeded(r, k) == Rand

Draws(r, k) ==
    IF rngPos[r] + k <= Len(stream) THEN {stream[rngPos[r] + k]} ELSE Rand

\* Run r's rng consumes the first n of its next two values d[1], d[2].  When a later
\* run is to read the stream again (keep), the values are kept in stream; a single
\* run reads every value once, and nothing is kept.  A value that is not consumed
\* and not fixed yet is left open: it is written 0 here.
Consume(r, d, n, keep) ==
    /\ \A k \in 1 .. 2 : (k > n /\ rngPos[r] + k > Len(stream)) => d[k] = 0
    /\ stream' = IF keep /\ rngPos[r] + n > Len(stream)
                 THEN SubSeq(stream, 1, rngPos[r]) \o SubSeq(d, 1, n)
                 ELSE stream
    /\ rngPos' = [rngPos EXCEPT ![r] = @ + n]

\* ------------------------------------------------------------------ main()
\* The script is run again only after the run before it has ended.
Terminated == {"exited", "returned", "done"}

\* benchmark.py:240-244
ComposeUp(r) ==
    /\ pc[r] = "start"
    /\ \A q \in Runs : q < r => pc[q] \in Terminated
    /\ \E up_rc \in {0, 1} :
         IF up_rc # 0
         THEN /\ pc' = [pc EXCEPT ![r] = "exited"]
              /\ UNCHANGED stack
         ELSE /\ pc' = [pc EXCEPT ![r] = "wait_http"]
              /\ stack' = [stack EXCEPT ![r] = "up"]
    /\ UNCHANGED plotVars
    /\ UNCHANGED <<cfgVars, stream, uuids, cleanups, i, rngPos, logs, descriptor_pool,
                   submodel_pool, drawn, sent, log_file, polls, http_ready, timeline, signalled>>

\* What requests.get(url, timeout=2) of the probe ends in (benchmark.py:70).
ProbeStatuses == {200, 404, 503, 600}
ProbeOutcomes == {TransportError} \cup {Response(s, FALSE) : s \in ProbeStatuses}

\* benchmark.py:71: the status that counts as the service responding.
Responding(status_code) == status_code < 500

\* Mutant of AfterWait: the result of wait_for_http is not looked at.
AfterWaitIgnored(ready) == [pc |-> "loop", cleanup |-> FALSE]

\* benchmark.py:249-251: where main() goes with the result of wait_for_http, and
\* whether it calls cleanup() on the way.
AfterWait(ready) ==
    IF ready THEN [pc |-> "loop", cleanup |-> FALSE]
    ELSE [pc |-> "returned", cleanup |-> TRUE]

\* wait_for_http returns ready (benchmark.py:73 and 78) and main() goes on (249-268).
WaitReturns(r, ready) ==
    /\ http_ready' = [http_ready EXCEPT ![r] = Some(ready)]
    /\ polls' = [polls EXCEPT ![r] = 0]
    /\ pc' = [pc EXCEPT ![r] = AfterWait(ready).pc]
    /\ IF AfterWait(ready).cleanup
       THEN /\ stack' = [stack EXCEPT ![r] = "down"]
            /\ cleanups' = [cleanups EXCEPT ![r] = @ + 1]
       ELSE UNCHANGED <<stack, cleanups>>

\* benchmark.py:65-78 and 249-251: one round of the loop of wait_for_http.  in_time is
\* time.time() - start < timeout: true when the loop is entered first, and false at
\* the latest after MaxPolls polls.  A poll that raises or sees a status of 500 or
\* more is followed by time.sleep(2) and the next round.
WaitForHttp(r) ==
    /\ pc[r] = "wait_http"
    /\ \E in_time \in BOOLEAN :
         /\ polls[r] = 0 => in_time
         /\ polls[r] >= MaxPolls => ~in_time
         /\ IF in_time
            THEN \E probe \in ProbeOutcomes :
                    IF ~probe.raised /\ Responding(probe.status_code)
                    THEN WaitReturns(r, TRUE)
                    ELSE /\ polls' = [polls EXCEPT ![r] = @ + 1]
                         /\ UNCHANGED <<pc, stack, cleanups, http_ready>>
            ELSE WaitReturns(r, FALSE)
    /\ UNCHANGED plotVars
    /\ UNCHANGED <<cfgVars, stream, uuids, i, rngPos, logs, descriptor_pool,
                   submodel_pool, drawn, sent, log_file, timeline, signalled>>

\* Mutant of deepcopy: copy.copy(x), a new dict whose "submodelDescriptors" is the list
\* object of x, with the entries of x.
shallowcopy(x) == [value |-> x, shares_top |-> FALSE, shares_nested |-> TRUE]

\* copy.deepcopy(x), benchmark.py:290: an object of the value of x; neither the dict
\* itself (shares_top) nor the list under "submodelDescriptors" and its entries
\* (shares_nested) is an object of x.
deepcopy(x) == [value |-> x, shares_top |-> FALSE, shares_nested |-> FALSE]

\* benchmark.py:293-299: payload after its "id" and the "id" of every entry of its
\* "submodelDescriptors" have been assigned; uuid4() yields first_uuid, first_uuid + 1, ...
AssignIds(payload, first_uuid) ==
    [payload EXCEPT
       !.id = AasId(first_uuid),
       !.submodelDescriptors =
           [k \in 1 .. Len(payload.submodelDescriptors) |->
               [@[k] EXCEPT !.id = SubmodelId(first_uuid + k)]]]

\* payload_template after the assignments of 293-299 to the copy: an assignment to an
\* object the copy shares with the template is an assignment to the template.
TemplateAfter(template, copy, payload) ==
    [template EXCEPT
       !.id = IF copy.shares_top THEN payload.id ELSE @,
       !.submodelDescriptors = IF copy.shares_top \/ copy.shares_nested
                               THEN payload.submodelDescriptors ELSE @]

\* benchmark.py:270-376 with op = "post" (289-316).
Post(r, outs, keep) ==
    /\ pc[r] = "loop"
    /\ i[r] < TOTAL_ITERS
    /\ \E d1 \in Draws(r, 1), d2 \in Draws(r, 2) :
         LET d == <<d1, d2>>
             sel == SelectOp(i[r], descriptor_pool[r], d[1], d[2])
             n == Len(payload_template.submodelDescriptors)
             copy == deepcopy(payload_template)
             payload == AssignIds(copy.value, uuids + 1)
             descriptor_id == payload.id
             req_url == Url(None, None)
         IN  /\ sel.op = "post"
             /\ Consume(r, d, sel.draws, keep)
             /\ uuids' = uuids + 1 + n
             /\ payload_template' = TemplateAfter(payload_template, copy, payload)
             /\ drawn' = [drawn EXCEPT ![r] = Append(@, sel.drawn)]
             /\ \E out \in outs :
                  /\ sent' = [sent EXCEPT ![r] =
                                Append(@, Request(i[r], "POST", req_url, None, None,
                                                  Some(payload), out))]
                  /\ LET pools == IF out.raised
                                  THEN [descriptor_pool |-> descriptor_pool[r],
                                        submodel_pool |-> submodel_pool[r]]
                                  ELSE PoolsAfterPost(descriptor_pool[r], submodel_pool[r],
                                                      OkOf(out), descriptor_id, payload)
                     IN  /\ descriptor_pool' = [descriptor_pool EXCEPT ![r] = pools.descriptor_pool]
                         /\ submodel_pool' = [submodel_pool EXCEPT ![r] = pools.submodel_pool]
                  /\ logs' = [logs EXCEPT ![r] =
                                Append(@, Entry(i[r], sel.op, out, Some(req_url), Some(payload)))]
                  /\ timeline' = [timeline EXCEPT ![r] =
                                    Append(@, Statements(sel.op, out, FALSE))]
    /\ i' = [i EXCEPT ![r] = @ + 1]
    /\ UNCHANGED plotVars
    /\ UNCHANGED <<TOTAL_ITERS, PREWARM_ITERS, OP_WEIGHTS, LOG_REQUEST_DETAILS, pc, stack,
                   cleanups, log_file, polls, http_ready, signalled>>

\* benchmark.py:270-376 with op = "get" (318-331).  rng.choice raises IndexError on
\* an empty pool: no request is issued and the except clause of 357 takes over.
Get(r, outs, keep) ==
    /\ pc[r] = "loop"
    /\ i[r] < TOTAL_ITERS
    /\ \E d1 \in Draws(r, 1), d2 \in Draws(r, 2) :
         LET d == <<d1, d2>>
             sel == SelectOp(i[r], descriptor_pool[r], d[1], d[2])
             descriptor_id == choice(descriptor_pool[r], d[sel.draws + 1])
             req_url == Url(Some(url_b64_encode(descriptor_id)), None)
         IN  /\ sel.op = "get"
             /\ drawn' = [drawn EXCEPT ![r] = Append(@, sel.drawn)]
             /\ IF descriptor_pool[r] = << >>
                THEN /\ Consume(r, d, sel.draws, keep)
                     /\ UNCHANGED sent
                     /\ logs' = [logs EXCEPT ![r] =
                                   Append(@, Entry(i[r], sel.op, TransportError, None, None))]
                     /\ timeline' = [timeline EXCEPT ![r] =
                                       Append(@, Statements(sel.op, TransportError, TRUE))]
                ELSE /\ Consume(r, d, sel.draws + 1, keep)
                     /\ \E out \in outs :
                          /\ sent' = [sent EXCEPT ![r] =
                                        Append(@, Request(i[r], "GET", req_url, None, None,
                                                          None, out))]
                          /\ logs' = [logs EXCEPT ![r] =
                                        Append(@, Entry(i[r], sel.op, out, Some(req_url), None))]
                          /\ timeline' = [timeline EXCEPT ![r] =
                                            Append(@, Statements(sel.op, out, FALSE))]
    /\ i' = [i EXCEPT ![r] = @ + 1]
    /\ UNCHANGED plotVars
    /\ UNCHANGED <<cfgVars, uuids, pc, stack, cleanups, descriptor_pool, submodel_pool, log_file,
                   polls, http_ready, signalled>>

\* benchmark.py:270-376 with op = "search_all" (333-343).
SearchAll(r, outs, keep) ==
    /\ pc[r] = "loop"
    /\ i[r] < TOTAL_ITERS
    /\ \E d1 \in Draws(r, 1), d2 \in Draws(r, 2) :
         LET d == <<d1, d2>>
             sel == SelectOp(i[r], descriptor_pool[r], d[1], d[2])
             req_url == Url(None, None)
         IN  /\ sel.op = "search_all"
             /\ Consume(r, d, sel.draws, keep)
             /\ drawn' = [drawn EXCEPT ![r] = Append(@, sel.drawn)]
             /\ \E out \in outs :
                  /\ sent' = [sent EXCEPT ![r] =
                                Append(@, Request(i[r], "GET", req_url, None, None, None, out))]
                  /\ logs' = [logs EXCEPT ![r] =
                                Append(@, Entry(i[r], sel.op, out, Some(req_url), None))]
                  /\ timeline' = [timeline EXCEPT ![r] =
                                    Append(@, Statements(sel.op, out, FALSE))]
    /\ i' = [i EXCEPT ![r] = @ + 1]
    /\ UNCHANGED plotVars
    /\ UNCHANGED <<cfgVars, uuids, pc, stack, cleanups, descriptor_pool, submodel_pool, log_file,
                   polls, http_ready, signalled>>

\* benchmark.py:270-376 with op = "search_limit100" (345-355): the request is
\* session.get(DISCOVERY_URL, params={"limit": 100}); req_url is what is logged.
SearchLimit100(r, outs, keep) ==
    /\ pc[r] = "loop"
    /\ i[r] < TOTAL_ITERS
    /\ \E d1 \in Draws(r, 1), d2 \in Draws(r, 2) :
         LET d == <<d1, d2>>
             sel == SelectOp(i[r], descriptor_pool[r], d[1], d[2])
             req_url == Url(None, Some("limit=100"))
         IN  /\ sel.op = "search_limit100"
             /\ Consume(r, d, sel.draws, keep)
             /\ drawn' = [drawn EXCEPT ![r] = Append(@, sel.drawn)]
             /\ \E out \in outs :
                  /\ sent' = [sent EXCEPT ![r] =
                                Append(@, Request(i[r], "GET", Url(None, None), Some(100), None,
                                                  None, out))]
                  /\ logs' = [logs EXCEPT ![r] =
                                Append(@, Entry(i[r], sel.op, out, Some(req_url), None))]
                  /\ timeline' = [timeline EXCEPT ![r] =
                                    Append(@, Statements(sel.op, out, FALSE))]
    /\ i' = [i EXCEPT ![r] = @ + 1]
    /\ UNCHANGED plotVars
    /\ UNCHANGED <<cfgVars, uuids, pc, stack, cleanups, descriptor_pool, submodel_pool, log_file,
                   polls, http_ready, signalled>>

\* benchmark.py:379-382: the loop is over, logs is dumped to LOG_FILE.
SaveResults(r) ==
    /\ pc[r] = "loop"
    /\ i[r] >= TOTAL_ITERS
    /\ log_file' = [log_file EXCEPT ![r] = Append(@, logs[r])]
    /\ pc' = [pc EXCEPT ![r] = "cleanup"]
    /\ UNCHANGED plotVars
    /\ UNCHANGED <<cfgVars, stream, uuids, stack, cleanups, i, rngPos, logs, descriptor_pool,
                   submodel_pool, drawn, sent, polls, http_ready, timeline, signalled>>

\* benchmark.py:384-385 with cleanup(), 224-226.
Cleanup(r) ==
    /\ pc[r] = "cleanup"
    /\ stack' = [stack EXCEPT ![r] = "down"]
    /\ cleanups' = [cleanups EXCEPT ![r] = @ + 1]
    /\ pc' = [pc EXCEPT ![r] = "done"]
    /\ UNCHANGED plotVars
    /\ UNCHANGED <<cfgVars, stream, uuids, i, rngPos, logs, descriptor_pool, submodel_pool,
                   drawn, sent, log_file, polls, http_ready, timeline, signalled>>

\* sys.exit(0) of sig_handler raises SystemExit (benchmark.py:231).
SystemExit == "SystemExit"

\* Mutant of Caught: the clause is a bare "except:", which catches every exception.
CaughtBare(exc) == TRUE

\* "except Exception" (benchmark.py:74 and 357): the clause catches the exceptions
\* derived from Exception, the errors of requests and IndexError among them;
\* SystemExit derives from BaseException only.
Caught(exc) == exc \in {"RequestException", "IndexError", "ValueError"}

\* benchmark.py:228-234: SIGINT or SIGTERM arrives while main() runs, and
\* sig_handler runs cleanup() and raises SystemExit where main() stands.  in_try: the
\* signal arrives inside a try block with an "except Exception" clause, which is
\* during the poll of wait_for_http (69-75) or during the operation of an
\* iteration, its call included (288-358).  An exception the clause catches ends the
\* poll or the iteration and the loop goes on; any other ends the process.
Interrupt(r) ==
    /\ pc[r] \notin Terminated
    /\ signalled[r] = "no"
    /\ \E sig \in {"SIGINT", "SIGTERM"}, in_try \in BOOLEAN :
         /\ in_try => (pc[r] = "wait_http" \/ (pc[r] = "loop" /\ i[r] < TOTAL_ITERS))
         /\ signalled' = [signalled EXCEPT ![r] = IF in_try THEN "in_try" ELSE "outside_try"]
         /\ stack' = [stack EXCEPT ![r] = "down"]
         /\ cleanups' = [cleanups EXCEPT ![r] = @ + 1]
         /\ IF in_try /\ Caught(SystemExit)
            THEN IF pc[r] = "wait_http"
                 THEN /\ polls' = [polls EXCEPT ![r] = @ + 1]
                      /\ UNCHANGED <<pc, i, logs, drawn, timeline>>
                 ELSE /\ \E k \in 1 .. Len(ops) :
                           logs' = [logs EXCEPT ![r] =
                                      Append(@, Entry(i[r], ops[k], TransportError, None, None))]
                      /\ drawn' = [drawn EXCEPT ![r] = Append(@, None)]
                      /\ timeline' = [timeline EXCEPT ![r] = Append(@, <<"t0", "t1">>)]
                      /\ i' = [i EXCEPT ![r] = @ + 1]
                      /\ UNCHANGED <<pc, polls>>
            ELSE /\ pc' = [pc EXCEPT ![r] = "exited"]
                 /\ UNCHANGED <<polls, i, logs, drawn, timeline>>
    /\ UNCHANGED plotVars
    /\ UNCHANGED <<cfgVars, stream, uuids, rngPos, descriptor_pool, submodel_pool, sent,
                   log_file, http_ready>>

\* The outcome of a target that always succeeds: it answers 200 with a JSON body.
SuccessOutcomes == {out \in Outcomes : OkOf(out) /\ out.status_code = 200 /\ out.is_json}

Main(r, outs, keep) ==
    \/ ComposeUp(r)
    \/ WaitForHttp(r)
    \/ Post(r, outs, keep)
    \/ Get(r, outs, keep)
    \/ SearchAll(r, outs, keep)
    \/ SearchLimit100(r, outs, keep)
    \/ SaveResults(r)
    \/ Cleanup(r)

\* One run against a target that may answer anything or fail.
Next == Main(1, Outcomes, FALSE) \/ Interrupt(1)

Spec == Init /\ [][Next]_vars

\* Two runs with the same configuration and seed against a target that always succeeds.
NextRerun == \E r \in Runs : Main(r, SuccessOutcomes, TRUE)

\* The selection reads neither the template nor LOG_REQUEST_DETAILS: they keep the
\* values of the source (benchmark.py:37 and 220).
InitRerun == Init /\ ~LOG_REQUEST_DETAILS /\ payload_template = data

SpecRerun == InitRerun /\ [][NextRerun]_vars

\* ====================================================================== the metrics tool
\* src/internal/submodelrepository/integration_tests/benchmark/plot_submodel_benchmark.py

\* ------------------------------------------------------------------ numbers
\* A float is the exact rational n/d in lowest terms with d > 0: the model computes
\* without the rounding of floating-point arithmetic.
Abs(a) == IF a < 0 THEN 0 - a ELSE a

RECURSIVE Gcd(_, _)
Gcd(a, b) == IF b = 0 THEN a ELSE Gcd(b, a % b)

Rat(n, d) ==
    LET g == Gcd(Abs(n), Abs(d))
        sign == IF d < 0 THEN 0 - 1 ELSE 1
    IN  [n |-> sign * (n \div g), d |-> sign * (d \div g)]

FromInt(k) == [n |-> k, d |-> 1]
Zero == FromInt(0)

RAdd(a, b) ==
    LET g == Gcd(a.d, b.d)
    IN  Rat(a.n * (b.d \div g) + b.n * (a.d \div g), (a.d \div g) * b.d)
RNeg(a) == [n |-> 0 - a.n, d |-> a.d]
RSub(a, b) == RAdd(a, RNeg(b))
RMul(a, b) ==
    LET g1 == Gcd(Abs(a.n), b.d)
        g2 == Gcd(Abs(b.n), a.d)
    IN  Rat((a.n \div g1) * (b.n \div g2), (a.d \div g2) * (b.d \div g1))
\* a / b for b # 0
RDiv(a, b) == RMul(a, Rat(b.d, b.n))
RLess(a, b) == RSub(a, b).n < 0
RLeq(a, b) == RSub(a, b).n <= 0

\* sum(xs) and np.sum(xs) of a list of floats
RECURSIVE RSum(_)
RSum(xs) ==
    IF xs = << >> THEN Zero
    ELSE IF Len(xs) = 1 THEN xs[1]
    ELSE LET half == Len(xs) \div 2
         IN  RAdd(RSum(SubSeq(xs, 1, half)), RSum(SubSeq(xs, half + 1, Len(xs))))

\* ------------------------------------------------------------------ the input
\* A log record, by the keys the tool reads: "iter", "op", "ok", "duration_ns" and
\* "duration_ms"; a key that is absent is None.
Rec(it, op, ok, ns, ms) ==
    [iter |-> it, op |-> op, ok |-> ok, duration_ns |-> ns, duration_ms |-> ms]

\* The records the bounded inputs are made of.
RecordChoices ==
    { Rec(Some(0), Some("create"), Some(TRUE), None, Some(10)),
      Rec(Some(1), Some("create"), Some(TRUE), None, Some(12)),
      Rec(Some(1), Some("read"), Some(FALSE), Some(5000000), None),
      Rec(Some(2), Some("read"), None, None, Some(0)),
      Rec(Some(1), Some("create"), Some(FALSE), Some(1000000), Some(7)),
      Rec(Some(0), Some("read"), Some(TRUE), None, None),
      Rec(None, Some("create"), Some(TRUE), None, Some(10)),
      Rec(Some(0), None, Some(TRUE), None, Some(8)) }

\* A JSON document: an array of records (items), an object, which may have a member
\* "records" holding a document (Some), or a scalar.
JsonList(items) == [type |-> "list", items |-> items, records |-> None]
JsonDict(member) == [type |-> "dict", items |-> << >>, records |-> member]
JsonScalar == [type |-> "scalar", items |-> << >>, records |-> None]

\* The lists of at most MaxRecords records.
RecordLists == UNION {[1 .. n -> RecordChoices] : n \in 0 .. MaxRecords}

\* The shorter lists: those that are also given wrapped in an object, and read in
\* a unit other than the default.
ShortLists == {l \in RecordLists : Len(l) < MaxRecords}

\* The documents that are no list of records and wrap none.
MalformedDocuments ==
    {JsonScalar, JsonDict(None), JsonDict(Some(JsonScalar)), JsonDict(Some(JsonDict(None))),
     JsonDict(Some(JsonDict(Some(JsonList(<< >>)))))}

\* args.unit, plot_submodel_benchmark.py:392
Units == {"ns", "us", "ms", "s"}

\* Mutant of load_records: an object is not looked into for "records".
load_records_bare(document) ==
    IF document.type # "list"
    THEN [raised |-> Some("ValueError: Expected a JSON array of log records."),
          value |-> << >>]
    ELSE [raised |-> None, value |-> document.items]

\* plot_submodel_benchmark.py:23-31.  The result is the list returned, or the
\* exception raised.
load_records(document) ==
    LET data1 == IF document.type = "dict" /\ document.records # None
                 THEN document.records[1]
                 ELSE document
    IN  IF data1.type # "list"
        THEN [raised |-> Some("ValueError: Expected a JSON array of log records."),
              value |-> << >>]
        ELSE [raised |-> None, value |-> data1.items]

\* 10 ** k
RECURSIVE Pow10(_)
Pow10(k) == IF k = 0 THEN 1 ELSE 10 * Pow10(k - 1)

\* plot_submodel_benchmark.py:38-44 and 47-53: val in the unit.
InUnit(val, u) ==
    IF u = "us" THEN RDiv(val, FromInt(Pow10(3)))
    ELSE IF u = "ms" THEN RDiv(val, FromInt(Pow10(6)))
    ELSE IF u = "s" THEN RDiv(val, FromInt(Pow10(9)))
    ELSE val

\* plot_submodel_benchmark.py:34-53.  float(None) raises TypeError.
convert_duration(dur_ns, dur_ms, u) ==
    IF dur_ns # None
    THEN [raised |-> None, value |-> InUnit(FromInt(dur_ns[1]), u)]
    ELSE IF dur_ms = None
         THEN [raised |-> Some("TypeError: float() argument must be a string or a real number"),
               value |-> Zero]
         ELSE [raised |-> None,
               value |-> InUnit(RMul(FromInt(dur_ms[1]), FromInt(Pow10(6))), u)]

\* ------------------------------------------------------------------ statistics
\* The operation labels in the order sorted() gives them.
OpAlphabet == <<"create", "list", "read", "search_paginated", "unknown">>

\* r.get("op", "unknown")
LabelOf(r) == IF r.op = None THEN "unknown" ELSE r.op[1]

\* sorted({r.get("op", "unknown") for r in records}), plot_submodel_benchmark.py:92
sorted_ops(recs) ==
    SelectSeq(OpAlphabet, LAMBDA o : \E k \in 1 .. Len(recs) : LabelOf(recs[k]) = o)

\* [r for r in records if r.get("op") == op], plot_submodel_benchmark.py:163, 288, 344
op_records(recs, op) == SelectSeq(recs, LAMBDA r : r.op = Some(op))

\* plot_submodel_benchmark.py:164-169 (289-294, 345-350): the durations of the records
\* of op that carry one, in the unit.
durations(recs, op, u) ==
    LET timed == SelectSeq(op_records(recs, op),
                           LAMBDA r : r.duration_ns # None \/ r.duration_ms # None)
    IN  [k \in 1 .. Len(timed) |->
            convert_duration(timed[k].duration_ns, timed[k].duration_ms, u).value]

\* Mutant of mean: the sum is not divided by the number of values.
mean_sum(ys) == RSum(ys)

\* np.mean(ys) for a non-empty list
mean(ys) == RDiv(RSum(ys), FromInt(Len(ys)))

\* Mutant of percentile: the nearest-rank value below the rank, without interpolation.
percentile_lower(ys, q) ==
    LET sorted == SortSeq(ys, LAMBDA a, b : RLess(a, b))
    IN  sorted[(((Len(ys) - 1) * q) \div 100) + 1]

\* np.percentile(ys, q) for a non-empty list, with numpy's default method (linear):
\* the value at rank (n - 1) * q / 100 of the sorted list, interpolated between the
\* two values next to the rank.
percentile(ys, q) ==
    LET sorted == SortSeq(ys, LAMBDA a, b : RLess(a, b))
        n == Len(ys)
        lower == ((n - 1) * q) \div 100
        gamma == Rat(((n - 1) * q) % 100, 100)
        upper == IF lower + 1 < n THEN lower + 1 ELSE lower
    IN  RAdd(sorted[lower + 1],
             RMul(RSub(sorted[upper + 1], sorted[lower + 1]), gamma))

\* np.median(ys) for a non-empty list: the middle value of the sorted list, or the
\* mean of the two middle values.
median(ys) ==
    LET sorted == SortSeq(ys, LAMBDA a, b : RLess(a, b))
        n == Len(ys)
    IN  IF n % 2 = 1 THEN sorted[(n \div 2) + 1]
        ELSE RDiv(RAdd(sorted[n \div 2], sorted[(n \div 2) + 1]), FromInt(2))

\* plot_submodel_benchmark.py:69-78: the slope of ys against xs over the mean, in
\* percent; None for fewer than two points, xs without variance or a mean of zero.
trend_pct(xs, ys) ==
    IF Len(xs) < 2 THEN None
    ELSE LET mean_x == mean(xs)
             mean_y == mean(ys)
             var_x == RSum([k \in 1 .. Len(xs) |->
                              RMul(RSub(xs[k], mean_x), RSub(xs[k], mean_x))])
             cov_xy == RSum([k \in 1 .. Len(xs) |->
                               RMul(RSub(xs[k], mean_x), RSub(ys[k], mean_y))])
         IN  IF ~RLess(Zero, var_x) THEN None
             ELSE IF ~RLess(Zero, mean_y) THEN None
             ELSE Some(RMul(RDiv(RDiv(cov_xy, var_x), mean_y), FromInt(100)))

\* plot_submodel_benchmark.py:56-86: points is a list of pairs <<x, y>>.
NoStats == [avg |-> None, median |-> None, p95 |-> None, p99 |-> None, trend_pct |-> None]
compute_stats(points) ==
    IF points = << >> THEN NoStats
    ELSE LET xs == [k \in 1 .. Len(points) |-> points[k][1]]
             ys == [k \in 1 .. Len(points) |-> points[k][2]]
         IN  [avg |-> Some(mean(ys)),
              median |-> Some(median(ys)),
              p95 |-> Some(percentile(ys, 95)),
              p99 |-> Some(percentile(ys, 99)),
              trend_pct |-> trend_pct(xs, ys)]

\* [(i, d) for i, d in enumerate(durations)], plot_submodel_benchmark.py:178 and 362
enumerate(ds) == [k \in 1 .. Len(ds) |-> <<FromInt(k - 1), ds[k]>>]

\* f"{x:.<places>f}": x rounded to places decimals (ties to even), as the sign, the
\* digits before the point and the digits after it.
Format(x, places) ==
    LET a == Abs(x.n)
        scaled == (a % x.d) * Pow10(places)
        r0 == scaled \div x.d
        rest == scaled % x.d
        up == 2 * rest > x.d \/ (2 * rest = x.d /\ r0 % 2 = 1)
        r == IF up THEN r0 + 1 ELSE r0
        carry == r = Pow10(places)
    IN  [negative |-> x.n < 0,
         whole |-> IF carry THEN (a \div x.d) + 1 ELSE a \div x.d,
         decimals |-> IF carry THEN 0 ELSE r,
         places |-> places]

\* 100.0 * success_count / total_count if total_count > 0 else 0,
\* plot_submodel_benchmark.py:253 and 354
success_rate(success_count, total_count) ==
    IF total_count > 0 THEN Rat(100 * success_count, total_count) ELSE Zero

\* Mutant of IsOk: r.get("ok", True), a record without "ok" counts as a success.
IsOkDefaultTrue(r) == r.ok # Some(FALSE)

\* r.get("ok", False)
IsOk(r) == r.ok = Some(TRUE)

\* plot_submodel_benchmark.py:343-369: the lines of the report for op.
ReportOf(recs, op, u) ==
    LET of_op == op_records(recs, op)
        ds == durations(recs, op, u)
        success_count == Len(SelectSeq(of_op, IsOk))
        total_count == Len(of_op)
        stats == compute_stats(enumerate(ds))
    IN  [op |-> op,
         total_count |-> total_count,
         success_count |-> success_count,
         success_rate |-> Format(success_rate(success_count, total_count), 2),
         latency |-> IF ds = << >> THEN None
                     ELSE Some([avg |-> Format(stats.avg[1], 3),
                                median |-> Format(stats.median[1], 3),
                                p95 |-> Format(stats.p95[1], 3),
                                p99 |-> Format(stats.p99[1], 3),
                                trend |-> IF stats.trend_pct = None THEN None
                                          ELSE Some(Format(stats.trend_pct[1], 3))])]

\* plot_submodel_benchmark.py:330-380: the text written to 00_summary_report.txt.
generate_summary_report(recs, u) ==
    [total_records |-> Len(recs),
     unit |-> u,
     operations |-> [k \in 1 .. Len(sorted_ops(recs)) |->
                        ReportOf(recs, sorted_ops(recs)[k], u)]]

\* ------------------------------------------------------------------ charts
\* sorted(S) for a set of integers
SortedSeq(S) ==
    IF S = {} THEN << >>
    ELSE LET lo == CHOOSE x \in S : \A y \in S : x <= y
             hi == CHOOSE x \in S : \A y \in S : y <= x
         IN  SelectSeq([k \in 1 .. (hi - lo + 1) |-> lo + k - 1], LAMBDA x : x \in S)

\* sorted({r.get("iter") for r in records if "iter" in r}), plot_submodel_benchmark.py:91
sorted_iters(recs) ==
    SortedSeq({recs[k].iter[1] : k \in {j \in 1 .. Len(recs) : recs[j].iter # None}})

\* Mutant of dur_map: dur_map[(it, op)] = val, the last record's duration replaces
\* what the earlier ones gave.
dur_map_last(recs, u, it, op) ==
    LET counted == SelectSeq(recs, LAMBDA r :
                       /\ r.iter = Some(it)
                       /\ LabelOf(r) = op
                       /\ (r.duration_ns # None \/ r.duration_ms # None))
    IN  IF counted = << >> THEN Zero
        ELSE convert_duration(counted[Len(counted)].duration_ns,
                              counted[Len(counted)].duration_ms, u).value

\* plot_submodel_benchmark.py:97-107: dur_map.get((it, op), 0.0), the sum of the
\* durations of the records of iteration it and label op that carry a duration.
dur_map(recs, u, it, op) ==
    LET counted == SelectSeq(recs, LAMBDA r :
                       /\ r.iter = Some(it)
                       /\ LabelOf(r) = op
                       /\ (r.duration_ns # None \/ r.duration_ms # None))
    IN  RSum([k \in 1 .. Len(counted) |->
                convert_duration(counted[k].duration_ns, counted[k].duration_ms, u).value])

\* plot_submodel_benchmark.py:109-114: series[op], the running sum over iters.
RECURSIVE series(_, _, _, _)
series(recs, u, op, its) ==
    IF its = << >> THEN << >>
    ELSE IF Len(its) = 1 THEN <<dur_map(recs, u, its[1], op)>>
    ELSE LET half == Len(its) \div 2
             before == series(recs, u, op, SubSeq(its, 1, half))
             after == series(recs, u, op, SubSeq(its, half + 1, Len(its)))
         IN  before \o [k \in 1 .. Len(after) |-> RAdd(before[half], after[k])]

\* plot_submodel_benchmark.py:116-119 and 125: sorted(per_op_points[op]), the pairs
\* (it, val) of dur_map with val > 0.
per_op_points(recs, u, op) ==
    LET its == SelectSeq(sorted_iters(recs), LAMBDA it : RLess(Zero, dur_map(recs, u, it, op)))
    IN  [k \in 1 .. Len(its) |-> <<FromInt(its[k]), dur_map(recs, u, its[k], op)>>]

\* plot_submodel_benchmark.py:126-136: the avg and trend of the label of op's line.
LabelStats(stats) ==
    IF stats.avg = None THEN None
    ELSE Some([avg |-> Format(stats.avg[1], 3),
               trend |-> IF stats.trend_pct = None THEN None
                         ELSE Some(Format(stats.trend_pct[1], 3))])

\* plot_submodel_benchmark.py:89-151: the chart saved, or the exception raised.
plot_cumulative_runtime(recs, u) ==
    LET its == sorted_iters(recs)
        labels == sorted_ops(recs)
    IN  IF its = << >>
        THEN [raised |-> Some("ValueError: No records with 'iter' found."), value |-> None]
        ELSE [raised |-> None,
              value |-> Some([iters |-> its,
                              lines |-> [k \in 1 .. Len(labels) |->
                                  [op |-> labels[k],
                                   series |-> series(recs, u, labels[k], its),
                                   label |-> LabelStats(compute_stats(
                                                per_op_points(recs, u, labels[k])))]]])]

\* plot_submodel_benchmark.py:154-187: per label the histogram's durations and the
\* text of its box, for the labels that have durations.
plot_latency_distribution(recs, u) ==
    [raised |-> None,
     value |-> Some([k \in 1 .. Len(sorted_ops(recs)) |->
         LET op == sorted_ops(recs)[k]
             ds == durations(recs, op, u)
             stats == compute_stats(enumerate(ds))
         IN  [op |-> op,
              hist |-> ds,
              text |-> IF ds = << >> THEN None
                       ELSE Some([avg |-> Format(stats.avg[1], 2),
                                  median |-> Format(stats.median[1], 2),
                                  p95 |-> Format(stats.p95[1], 2),
                                  p99 |-> Format(stats.p99[1], 2)])]])]

\* plot_submodel_benchmark.py:203-205: the pairs (iter, duration in seconds) of the
\* records of op that carry an iteration, sorted.  convert_duration raises for a
\* record among them that carries no duration.
throughput_records(recs, op) ==
    LET with_iter == SelectSeq(op_records(recs, op), LAMBDA r : r.iter # None)
        converted == [k \in 1 .. Len(with_iter) |->
                        convert_duration(with_iter[k].duration_ns,
                                         with_iter[k].duration_ms, "s")]
        failed == {k \in 1 .. Len(with_iter) : converted[k].raised # None}
    IN  IF failed # {}
        THEN [raised |-> converted[CHOOSE k \in failed : \A j \in failed : k <= j].raised,
              value |-> << >>]
        ELSE [raised |-> None,
              value |-> SortSeq([k \in 1 .. Len(with_iter) |->
                                    <<with_iter[k].iter[1], converted[k].value>>],
                                LAMBDA a, b : a[1] < b[1]
                                              \/ (a[1] = b[1] /\ RLess(a[2], b[2])))]

\* Mutant of window_size: the window is ten whatever the number of iterations.
window_size_ten(its) == 10

\* window_size = max(10, len(iters) // 50), plot_submodel_benchmark.py:196
window_size(its) == Max(10, Len(its) \div 50)

\* plot_submodel_benchmark.py:207-221: the points (window_iters[-1], throughput) of
\* the windows of w observations with a total time above zero.
throughputs(observations, w) ==
    IF Len(observations) < w THEN << >>
    ELSE LET total_time(k) == RSum([j \in 1 .. w |-> observations[k + j - 1][2]])
             starts == SelectSeq([k \in 1 .. (Len(observations) - w + 1) |-> k],
                                 LAMBDA k : RLess(Zero, total_time(k)))
         IN  [m \in 1 .. Len(starts) |->
                 <<observations[starts[m] + w - 1][1],
                   RDiv(FromInt(w), total_time(starts[m]))>>]

\* plot_submodel_benchmark.py:190-236: the chart saved, nothing (None) when there
\* is no iteration, or the exception raised.
plot_throughput_over_time(recs) ==
    LET its == sorted_iters(recs)
        labels == sorted_ops(recs)
        failed == {k \in 1 .. Len(labels) : throughput_records(recs, labels[k]).raised # None}
    IN  IF its = << >> THEN [raised |-> None, value |-> None]
        ELSE IF failed # {}
        THEN [raised |-> throughput_records(recs,
                             labels[CHOOSE k \in failed : \A j \in failed : k <= j]).raised,
              value |-> None]
        ELSE [raised |-> None,
              value |-> Some([window_size |-> window_size(its),
                              lines |-> [k \in 1 .. Len(labels) |->
                                  [op |-> labels[k],
                                   points |-> throughputs(
                                                 throughput_records(recs, labels[k]).value,
                                                 window_size(its))]]])]

\* plot_submodel_benchmark.py:243-254: total_counts[op], success_counts[op] and the
\* rate of label op.
chart_counts(recs, op) ==
    LET labelled == SelectSeq(recs, LAMBDA r : LabelOf(r) = op)
    IN  [op |-> op,
         total_count |-> Len(labelled),
         success_count |-> Len(SelectSeq(labelled, IsOk)),
         rate |-> success_rate(Len(SelectSeq(labelled, IsOk)), Len(labelled))]

\* plot_submodel_benchmark.py:239-278: the bars of the chart saved.
plot_success_rate(recs) ==
    [raised |-> None,
     value |-> Some([k \in 1 .. Len(sorted_ops(recs)) |->
                        chart_counts(recs, sorted_ops(recs)[k])])]

\* plot_submodel_benchmark.py:286-310: the bars of the chart saved; percentile_data
\* has no entry for a label without durations, and reading it raises KeyError.
plot_percentile_comparison(recs, u) ==
    LET labels == sorted_ops(recs)
        missing == {k \in 1 .. Len(labels) : durations(recs, labels[k], u) = << >>}
    IN  IF missing # {}
        THEN [raised |-> Some("KeyError"), value |-> None]
        ELSE [raised |-> None,
              value |-> Some([k \in 1 .. Len(labels) |->
                  [op |-> labels[k],
                   p50 |-> percentile(durations(recs, labels[k], u), 50),
                   p95 |-> percentile(durations(recs, labels[k], u), 95),
                   p99 |-> percentile(durations(recs, labels[k], u), 99)]])]

\* ------------------------------------------------------------------ main() of the tool
\* The logs of the examples: ten reads of which eight succeeded, and five creates
\* with the durations 30, 10, 100, 20 and 40 ms.
LogEightOfTen ==
    [k \in 1 .. 10 |->
        Rec(Some(k - 1), Some("read"), Some(k \notin {3, 7}), None, Some(10 + k))]
LogPercentiles ==
    << Rec(Some(0), Some("create"), Some(TRUE), None, Some(30)),
       Rec(Some(1), Some("create"), Some(TRUE), None, Some(10)),
       Rec(Some(2), Some("create"), Some(TRUE), None, Some(100)),
       Rec(Some(3), Some("create"), Some(TRUE), None, Some(20)),
       Rec(Some(4), Some("create"), Some(TRUE), None, Some(40)) >>
\* Logs for the rolling throughput: twelve reads of 11 to 22 ms followed by two
\* creates; ten reads whose durations are all zero; and reads of 20 ms in
\* LargeIters distinct iterations, enough for a window above ten.
LogTwelveReads ==
    [k \in 1 .. 14 |->
        IF k <= 12 THEN Rec(Some(k - 1), Some("read"), Some(TRUE), None, Some(10 + k))
        ELSE Rec(Some(k - 1), Some("create"), Some(TRUE), None, Some(30))]
LogZeroDurations ==
    [k \in 1 .. 10 |-> Rec(Some(k - 1), Some("read"), Some(TRUE), None, Some(0))]
LargeIters == 550
LogLarge ==
    [k \in 1 .. LargeIters |-> Rec(Some(k - 1), Some("read"), Some(TRUE), None, Some(20))]
\* The log of the summary example: create(ok, 10 ms), create(ok, 12 ms), read(ok, 5 ms),
\* list(ok, 8 ms) and search_paginated(fail, 0 ms), in the iterations 0 to 4.
LogSummary ==
    << Rec(Some(0), Some("create"), Some(TRUE), None, Some(10)),
       Rec(Some(1), Some("create"), Some(TRUE), None, Some(12)),
       Rec(Some(2), Some("read"), Some(TRUE), None, Some(5)),
       Rec(Some(3), Some("list"), Some(TRUE), None, Some(8)),
       Rec(Some(4), Some("search_paginated"), Some(FALSE), None, Some(0)) >>
ExampleLogs ==
    {LogEightOfTen, LogPercentiles, LogTwelveReads, LogZeroDurations, LogLarge, LogSummary}

\* The tool is started on an input file: a list of records, bare or wrapped in an
\* object under "records", a document of another shape, or no file at all.  The
\* longest lists, the wrapped lists and the example logs are read in the default
\* unit, the shorter lists in every unit.
InitPlot ==
    /\ TOTAL_ITERS = 0
    /\ PREWARM_ITERS = 0
    /\ OP_WEIGHTS = <<2, 1, 1, 1>>
    /\ LOG_REQUEST_DETAILS = FALSE
    /\ payload_template = data
    /\ InitRun
    /\ \/ /\ unit \in Units
          /\ input_file \in {None}
                \cup {Some(JsonList(l)) : l \in ShortLists}
                \cup {Some(d) : d \in MalformedDocuments}
       \/ /\ unit = "ms"
          /\ input_file \in {Some(JsonList(l)) : l \in RecordLists \cup ExampleLogs}
                \cup {Some(JsonDict(Some(JsonList(l)))) : l \in ShortLists}
    /\ plot_pc = "load"
    /\ records = None
    /\ files = NoFiles
    /\ error = None

\* A function of the tool has returned or raised: the invocation ends with the
\* exception, or the file is written (value is None when the function returns
\* without saving) and main() goes on.
Finish(result, name, next) ==
    IF result.raised # None
    THEN /\ plot_pc' = "failed"
         /\ error' = result.raised
         /\ UNCHANGED files
    ELSE /\ plot_pc' = next
         /\ files' = IF result.value = None THEN files
                     ELSE [files EXCEPT ![name] = result.value]
         /\ UNCHANGED error

\* plot_submodel_benchmark.py:396-404
LoadRecords ==
    /\ plot_pc = "load"
    /\ IF input_file = None
       THEN /\ plot_pc' = "failed"
            /\ error' = Some("FileNotFoundError")
            /\ UNCHANGED records
       ELSE LET loaded == load_records(input_file[1])
            IN  IF loaded.raised # None
                THEN /\ plot_pc' = "failed"
                     /\ error' = loaded.raised
                     /\ UNCHANGED records
                ELSE /\ plot_pc' = "generate_summary_report"
                     /\ records' = Some(loaded.value)
                     /\ UNCHANGED error
    /\ UNCHANGED <<input_file, unit, files>>
    /\ UNCHANGED benchVars

\* plot_submodel_benchmark.py:407
GenerateSummaryReport ==
    /\ plot_pc = "generate_summary_report"
    /\ Finish([raised |-> None, value |-> Some(generate_summary_report(records[1], unit))],
              "summary_report", "plot_cumulative_runtime")
    /\ UNCHANGED <<input_file, unit, records>>
    /\ UNCHANGED benchVars

\* plot_submodel_benchmark.py:408
PlotCumulativeRuntime ==
    /\ plot_pc = "plot_cumulative_runtime"
    /\ Finish(plot_cumulative_runtime(records[1], unit),
              "cumulative_runtime", "plot_latency_distribution")
    /\ UNCHANGED <<input_file, unit, records>>
    /\ UNCHANGED benchVars

\* plot_submodel_benchmark.py:409
PlotLatencyDistribution ==
    /\ plot_pc = "plot_latency_distribution"
    /\ Finish(plot_latency_distribution(records[1], unit),
              "latency_distribution", "plot_throughput_over_time")
    /\ UNCHANGED <<input_file, unit, records>>
    /\ UNCHANGED benchVars

\* plot_submodel_benchmark.py:410
PlotThroughputOverTime ==
    /\ plot_pc = "plot_throughput_over_time"
    /\ Finish(plot_throughput_over_time(records[1]),
              "throughput_over_time", "plot_success_rate")
    /\ UNCHANGED <<input_file, unit, records>>
    /\ UNCHANGED benchVars

\* plot_submodel_benchmark.py:411
PlotSuccessRate ==
    /\ plot_pc = "plot_success_rate"
    /\ Finish(plot_success_rate(records[1]), "success_rate", "plot_percentile_comparison")
    /\ UNCHANGED <<input_file, unit, records>>
    /\ UNCHANGED benchVars

\* plot_submodel_benchmark.py:412-414
PlotPercentileComparison ==
    /\ plot_pc = "plot_percentile_comparison"
    /\ Finish(plot_percentile_comparison(records[1], unit), "percentile_comparison", "done")
    /\ UNCHANGED <<input_file, unit, records>>
    /\ UNCHANGED benchVars

\* plot_submodel_benchmark.py:383-414
PlotMain ==
    \/ LoadRecords
    \/ GenerateSummaryReport
    \/ PlotCumulativeRuntime
    \/ PlotLatencyDistribution
    \/ PlotThroughputOverTime
    \/ PlotSuccessRate
    \/ PlotPercentileComparison

NextPlot == PlotMain

\* One invocation of the metrics tool.
SpecPlot == InitPlot /\ [][NextPlot]_vars

\* ====================================================================== the testenv plot
\* src/internal/common/testenv/plotbenchmark.py, the cumulative-runtime plot of the
\* test environment; args.unit is "us" or "ms" (line 21).
TestenvUnits == {"us", "ms"}

\* src/internal/common/testenv/plotbenchmark.py:39-45: the value of a record that
\* carries "duration_ms"; the field is read as microseconds.
testenv_val(dur, u) ==
    IF u = "ms" THEN RDiv(FromInt(dur), FromInt(Pow10(3))) ELSE FromInt(dur)

\* src/internal/common/testenv/plotbenchmark.py:35-46: dur_map.get((it, op), 0.0); a
\* record without "duration_ms" is skipped, whatever else it carries.
testenv_dur_map(recs, u, it, op) ==
    LET counted == SelectSeq(recs, LAMBDA r :
                       /\ r.iter = Some(it)
                       /\ LabelOf(r) = op
                       /\ r.duration_ms # None)
    IN  RSum([k \in 1 .. Len(counted) |-> testenv_val(counted[k].duration_ms[1], u)])

\* src/internal/common/testenv/plotbenchmark.py:49-54: series[op]
RECURSIVE testenv_series(_, _, _, _)
testenv_series(recs, u, op, its) ==
    IF its = << >> THEN << >>
    ELSE LET before == testenv_series(recs, u, op, SubSeq(its, 1, Len(its) - 1))
             last == IF before = << >> THEN Zero ELSE before[Len(before)]
         IN  Append(before, RAdd(last, testenv_dur_map(recs, u, its[Len(its)], op)))

\* src/internal/common/testenv/plotbenchmark.py:27-75: the plot saved, or the exit.
testenv_plot(recs, u) ==
    LET its == sorted_iters(recs)
        labels == sorted_ops(recs)
    IN  IF its = << >>
        THEN [raised |-> Some("SystemExit: No records with 'iter' found."), value |-> None]
        ELSE [raised |-> None,
              value |-> Some([iters |-> its,
                              lines |-> [k \in 1 .. Len(labels) |->
                                  [op |-> labels[k],
                                   series |-> testenv_series(recs, u, labels[k], its)]]])]

\* The plot is started on an input file: a list of fewer than MaxRecords records, a
\* document of another shape, or no file at all.
InitTestenv ==
    /\ TOTAL_ITERS = 0
    /\ PREWARM_ITERS = 0
    /\ OP_WEIGHTS = <<2, 1, 1, 1>>
    /\ LOG_REQUEST_DETAILS = FALSE
    /\ payload_template = data
    /\ InitRun
    /\ unit \in TestenvUnits
    /\ input_file \in {None}
          \cup {Some(JsonList(l)) : l \in ShortLists}
          \cup {Some(d) : d \in MalformedDocuments}
    /\ plot_pc = "load"
    /\ records = None
    /\ files = NoFiles
    /\ error = None

\* src/internal/common/testenv/plotbenchmark.py:25
TestenvLoadRecords ==
    /\ plot_pc = "load"
    /\ IF input_file = None
       THEN /\ plot_pc' = "failed"
            /\ error' = Some("FileNotFoundError")
            /\ UNCHANGED records
       ELSE LET loaded == load_records(input_file[1])
            IN  IF loaded.raised # None
                THEN /\ plot_pc' = "failed"
                     /\ error' = loaded.raised
                     /\ UNCHANGED records
                ELSE /\ plot_pc' = "plot"
                     /\ records' = Some(loaded.value)
                     /\ UNCHANGED error
    /\ UNCHANGED <<input_file, unit, files>>
    /\ UNCHANGED benchVars

\* src/internal/common/testenv/plotbenchmark.py:27-75
TestenvPlot ==
    /\ plot_pc = "plot"
    /\ Finish(testenv_plot(records[1], unit), "cumulative_runtime", "done")
    /\ UNCHANGED <<input_file, unit, records>>
    /\ UNCHANGED benchVars

\* src/internal/common/testenv/plotbenchmark.py:16-75
NextTestenv == TestenvLoadRecords \/ TestenvPlot

\* One invocation of the plot of the test environment.
SpecTestenv == InitTestenv /\ [][NextTestenv]_vars

\* ------------------------------------------------------------------ claims
\* What the claims speak of: the first run, its records and its calls.

\* The call of iteration it, if one was made.
CallsOf(r, it) == {k \in 1 .. Len(sent[r]) : sent[r][k].iter = it}
CallOf(r, it) == sent[r][CHOOSE k \in CallsOf(r, it) : TRUE]

\* The record of a create that succeeded.
IsCreated(e) == e.op = "post" /\ e.ok

\* The identifiers assigned by the successful creates among the first n records of
\* run r, in the order of the records.
RECURSIVE CreatedIds(_, _)
CreatedIds(r, n) ==
    IF n = 0 THEN << >>
    ELSE IF IsCreated(logs[r][n])
         THEN Append(CreatedIds(r, n - 1), CallOf(r, logs[r][n].iter).json[1].id)
         ELSE CreatedIds(r, n - 1)

IsPrefix(s, t) == Len(s) <= Len(t) /\ SubSeq(t, 1, Len(s)) = s

Range(s) == {s[k] : k \in 1 .. Len(s)}

\* C1: whenever the operation of iteration i is about to be chosen, the pool holds
\* exactly the identifiers of the creates of iterations 0..i-1 whose record has
\* ok = true, in creation order.
C1_PoolAtSelection ==
    pc[1] = "loop" =>
        /\ Len(logs[1]) = i[1]
        /\ descriptor_pool[1] = CreatedIds(1, i[1])

\* C1: no step removes an identifier from the pool, and only a step that logs a
\* successful create changes it.
C1_PoolStep ==
    /\ IsPrefix(descriptor_pool[1], descriptor_pool'[1])
    /\ descriptor_pool'[1] # descriptor_pool[1] =>
          /\ Len(logs'[1]) = Len(logs[1]) + 1
          /\ IsCreated(logs'[1][Len(logs'[1])])

\* C1 (claim C1): at the moment the operation type of iteration i is chosen the
\* identifier pool contains exactly the identifiers of the successful creates of
\* iterations 0..i-1, in creation order; identifiers are never removed, and reads,
\* lists, paginated searches and failed creates leave the pool unchanged.
C1_PoolReflectsCreates == [](C1_PoolAtSelection) /\ [][C1_PoolStep]_vars

\* Witness of C1: a failed create, then a successful one, and the pool holds the
\* identifier of the second alone as the loop head is reached again.
C1_Witness ==
    /\ pc[1] = "loop"
    /\ i[1] = 2
    /\ logs[1][1].op = "post" /\ ~logs[1][1].ok
    /\ IsCreated(logs[1][2])
    /\ descriptor_pool[1] = <<CallOf(1, 1).json[1].id>>

\* C2 (claim C2): after the run the size of the identifier pool equals the number of
\* records with op = create and ok = true; the sub-resource identifiers are held in
\* submodel_pool and none of them is in the identifier pool.
C2_PoolSize ==
    pc[1] \in {"cleanup", "done"} =>
        /\ Len(descriptor_pool[1]) =
              Cardinality({k \in 1 .. Len(logs[1]) : IsCreated(logs[1][k])})
        /\ Range(descriptor_pool[1]) \cap Range(submodel_pool[1]) = {}
        /\ \A id \in Range(descriptor_pool[1]) : id.prefix = AasId(0).prefix

\* Witness of C2: a finished run over the template with sub-resources in which one
\* create succeeded and one failed with a transport error.
C2_Witness ==
    /\ pc[1] = "done"
    /\ payload_template = data_big
    /\ Len(logs[1]) = 2
    /\ IsCreated(logs[1][1])
    /\ logs[1][2].op = "post" /\ logs[1][2].code = None
    /\ Len(descriptor_pool[1]) = 1
    /\ Len(submodel_pool[1]) = 1

\* How many stream values the iteration of the k-th record of run r has consumed:
\* none in warm-up, one for the weighted draw, and a second one either for the
\* fallback draw or for the identifier sampled by a read.
DrawsOf(r, k) ==
    IF drawn[r][k] = None THEN 0
    ELSE IF drawn[r][k] = Some("get") THEN 2
    ELSE 1

RECURSIVE DrawsUpTo(_, _)
DrawsUpTo(r, n) == IF n = 0 THEN 0 ELSE DrawsOf(r, n) + DrawsUpTo(r, n - 1)

\* C3 (claim C3): two runs with the same seed, N, W and weights against a target that
\* always succeeds choose the same operation type iteration by iteration, and the
\* weighted draw, the fallback draw and the identifier sampling of read all read the
\* one seeded stream in iteration order.
C3_SameOperations ==
    /\ \A k \in 1 .. Min(Len(logs[1]), Len(logs[2])) :
          /\ logs[1][k].op = logs[2][k].op
          /\ drawn[1][k] = drawn[2][k]
    /\ \A r \in Runs :
          /\ rngPos[r] <= Len(stream)
          /\ rngPos[r] = DrawsUpTo(r, Len(logs[r]))

\* Witness of C3: both runs are over; each drew "get" on an empty pool in iteration
\* 0, fell back to a search, and created in iteration 1.
C3_Witness ==
    /\ pc[1] = "done" /\ pc[2] = "done"
    /\ Len(logs[2]) = 2
    /\ drawn[2][1] = Some("get")
    /\ logs[2][1].op = "search_limit100"
    /\ logs[2][2].op = "post"
    /\ rngPos[2] = 3

\* The pool as it was when the operation of the k-th record was chosen.
PoolBefore(r, k) == CreatedIds(r, k - 1)

\* C4 (claim C4): at an iteration i >= W at which the weighted draw selects read
\* while the pool is empty, the operation executed and recorded is list or
\* search_paginated; no record with op = read belongs to an iteration at which the
\* pool was empty.
C4_FallbackNeverRead ==
    \A k \in 1 .. Len(logs[1]) :
        /\ (drawn[1][k] = Some("get") /\ PoolBefore(1, k) = << >>) =>
              logs[1][k].op \in {"search_all", "search_limit100"}
        /\ logs[1][k].op = "get" => PoolBefore(1, k) # << >>

\* Witness of C4: after a failed create the pool is still empty, the draw of
\* iteration 1 selects read and a search is executed instead.
C4_Witness ==
    /\ Len(logs[1]) = 2
    /\ logs[1][1].op = "post" /\ ~logs[1][1].ok
    /\ drawn[1][2] = Some("get")
    /\ logs[1][2].op = "search_all"

\* The warm-up count W: the configured prewarm count clamped into [0, N].
ClampedPrewarm ==
    IF PREWARM_ITERS < 0 THEN 0
    ELSE IF PREWARM_ITERS > TOTAL_ITERS THEN TOTAL_ITERS
    ELSE PREWARM_ITERS

\* C5 (claim C5): every iteration i < W is a create that no draw has selected, W being
\* the prewarm count clamped into [0, N]; a run with W = N has only create records.
C5_WarmupCreates ==
    /\ \A k \in 1 .. Len(logs[1]) :
          logs[1][k].iter < ClampedPrewarm =>
              logs[1][k].op = "post" /\ drawn[1][k] = None
    /\ (ClampedPrewarm = TOTAL_ITERS /\ pc[1] \in {"cleanup", "done"}) =>
          /\ Len(logs[1]) = TOTAL_ITERS
          /\ \A k \in 1 .. Len(logs[1]) : logs[1][k].op = "post"

\* Witness of C5: the configured prewarm count exceeds N = 2 and the finished run
\* has two create records.
C5_Witness ==
    /\ PREWARM_ITERS > TOTAL_ITERS
    /\ TOTAL_ITERS = 2
    /\ pc[1] = "done"
    /\ Len(logs[1]) = 2
    /\ logs[1][1].op = "post" /\ logs[1][2].op = "post"

\* C6 (claim C6): a transport error raised by the call of iteration i gives that
\* iteration a record with ok = false and no status code, leaves the pools without
\* the identifiers of that call, and the run goes on: the loop stands at the next
\* iteration and a run that reaches its end has N records.
C6_TransportErrorIsolated ==
    /\ \A k \in 1 .. Len(sent[1]) :
          sent[1][k].result.raised =>
              LET it == sent[1][k].iter
              IN  /\ it < Len(logs[1])
                  /\ logs[1][it + 1].iter = it
                  /\ ~logs[1][it + 1].ok
                  /\ logs[1][it + 1].code = None
                  /\ sent[1][k].json # None =>
                        /\ sent[1][k].json[1].id \notin Range(descriptor_pool[1])
                        /\ \A m \in 1 .. Len(sent[1][k].json[1].submodelDescriptors) :
                              sent[1][k].json[1].submodelDescriptors[m].id
                                  \notin Range(submodel_pool[1])
    /\ pc[1] = "loop" => i[1] = Len(logs[1])
    /\ pc[1] \in {"cleanup", "done"} => Len(logs[1]) = TOTAL_ITERS

\* Witness of C6: the create of iteration 0 ends in a transport error, iteration 1
\* is executed all the same, and the run ends with its two records.
C6_Witness ==
    /\ pc[1] = "done"
    /\ Len(logs[1]) = 2
    /\ Len(sent[1]) = 2
    /\ sent[1][1].result.raised /\ sent[1][1].method = "POST"
    /\ logs[1][2].ok

\* C7 as the claim states it: ok is true exactly when a response with a status below
\* 400 was received, and the status code is absent exactly on a transport failure.
C7_OkIffBelow400 ==
    \A k \in 1 .. Len(logs[1]) :
        LET e == logs[1][k]
        IN  IF CallsOf(1, e.iter) = {}
            THEN ~e.ok /\ e.code = None
            ELSE LET res == CallOf(1, e.iter).result
                 IN  /\ e.ok <=> (~res.raised /\ res.status_code < 400)
                     /\ e.code = None <=> res.raised

\* C7 (claim C7, amended): ok is true exactly when a response was received whose
\* status is outside 400..599; the status code is absent exactly on a transport
\* failure and is otherwise the status of this iteration's own response.
C7_OkIffNot4xx5xx ==
    \A k \in 1 .. Len(logs[1]) :
        LET e == logs[1][k]
        IN  IF CallsOf(1, e.iter) = {}
            THEN ~e.ok /\ e.code = None
            ELSE LET res == CallOf(1, e.iter).result
                 IN  /\ e.ok <=> (~res.raised
                                   /\ ~(400 <= res.status_code /\ res.status_code < 600))
                     /\ e.code = IF res.raised THEN None ELSE Some(res.status_code)

\* Witness of C7: a response with status 600 is recorded with ok = true, and the
\* transport failure after it with ok = false and no status code.
C7_Witness ==
    /\ Len(logs[1]) = 2
    /\ logs[1][1].code = Some(600) /\ logs[1][1].ok
    /\ CallOf(1, 1).result.raised
    /\ logs[1][2].code = None /\ ~logs[1][2].ok

\* C8 (claim C8): in a run that no signal interrupts, the records carry iter = 0, 1, ...
\* in order; the log file is written once, when the N records of the N iterations
\* exist, with exactly that list, and cleanup runs only after it.
C8_OneRecordPerIteration ==
    signalled[1] = "no" =>
        /\ \A k \in 1 .. Len(logs[1]) : logs[1][k].iter = k - 1
        /\ pc[1] \in {"start", "wait_http", "loop", "exited", "returned"} =>
              log_file[1] = << >>
        /\ pc[1] \in {"cleanup", "done"} =>
              /\ Len(logs[1]) = TOTAL_ITERS
              /\ log_file[1] = <<logs[1]>>
        /\ pc[1] = "cleanup" => cleanups[1] = 0

\* Witness of C8: a finished run of two iterations whose two records are in the file.
C8_Witness ==
    /\ pc[1] = "done"
    /\ signalled[1] = "no"
    /\ TOTAL_ITERS = 2
    /\ Len(log_file[1]) = 1
    /\ Len(log_file[1][1]) = 2
    /\ cleanups[1] = 1

\* The calls of the paginated searches of run r.
PaginatedCalls(r) ==
    {CallOf(r, logs[r][k].iter) : k \in {m \in 1 .. Len(logs[r]) :
                                           logs[r][m].op = "search_limit100"}}

C10_ReadsCreatedIds ==
    /\ \A k \in 1 .. Len(sent[1]) :
          LET c == sent[1][k]
          IN  (c.method = "GET" /\ c.url.path # None) =>
                  \E id \in Range(CreatedIds(1, c.iter)) :
                      c.url.path = Some(url_b64_encode(id))
    /\ \A k \in 1 .. Len(logs[1]) :
          logs[1][k].op = "get" =>
              /\ CallsOf(1, logs[1][k].iter) # {}
              /\ CallOf(1, logs[1][k].iter).url.path # None

\* Witness of C10: a create succeeds in iteration 0 and iteration 1 reads its
\* identifier.
C10_Witness ==
    /\ Len(logs[1]) = 2
    /\ IsCreated(logs[1][1])
    /\ logs[1][2].op = "get"
    /\ CallOf(1, 1).url.path = Some(url_b64_encode(CallOf(1, 0).json[1].id))

\* The place of statement x in the statements tl of an iteration (0: not executed).
Pos(tl, x) == IF \E k \in 1 .. Len(tl) : tl[k] = x
              THEN CHOOSE k \in 1 .. Len(tl) : tl[k] = x
              ELSE 0

\* Statement a is executed before statement b, when both are executed.
Precedes(tl, a, b) == (Pos(tl, a) # 0 /\ Pos(tl, b) # 0) => Pos(tl, a) < Pos(tl, b)

\* C11 (claim C11) as the claim states it: in every iteration the start timestamp is
\* taken after the request body has been constructed (deep copy and identifier
\* assignment), and the end timestamp is taken before the identifier is appended to
\* the pool and before the response body is captured, so that the recorded duration
\* covers the network call only.
C11_DurationCoversCallOnly ==
    \A k \in 1 .. Len(timeline[1]) :
        LET tl == timeline[1][k]
        IN  /\ Precedes(tl, "deepcopy", "t0")
            /\ Precedes(tl, "assign_ids", "t0")
            /\ Precedes(tl, "t1", "pool_append")
            /\ Precedes(tl, "t1", "resp_body")
            /\ Precedes(tl, "t0", "session_call")
            /\ Precedes(tl, "session_call", "t1")

\* The create calls of run r, and the identifiers a body carries: its own and those
\* of its sub-resources.
PostCalls(r) == {k \in 1 .. Len(sent[r]) : sent[r][k].method = "POST"}
IdsOf(body) ==
    {body.id} \cup {body.submodelDescriptors[m].id : m \in 1 .. Len(body.submodelDescriptors)}

\* C12: the body of every create is the template with a generated top-level id and a
\* generated id in every sub-resource; no generated identifier is one of the
\* template's or one of another create.
C12_FreshCopies ==
    \A k \in PostCalls(1) :
        LET body == sent[1][k].json[1]
        IN  /\ body.id.prefix = AasId(0).prefix /\ body.id.uuid > 0
            /\ Len(body.submodelDescriptors) = Len(payload_template.submodelDescriptors)
            /\ \A m \in 1 .. Len(body.submodelDescriptors) :
                  /\ body.submodelDescriptors[m].id.prefix = SubmodelId(0).prefix
                  /\ body.submodelDescriptors[m].id.uuid > 0
            /\ Cardinality(IdsOf(body)) = 1 + Len(body.submodelDescriptors)
            /\ IdsOf(body) \cap IdsOf(payload_template) = {}
            /\ \A j \in PostCalls(1) : j # k => IdsOf(body) \cap IdsOf(sent[1][j].json[1]) = {}

\* C12: the identifiers of a create logged with ok = true are in the pools; the pool
\* holds no identifier twice and not the template's own.
C12_Pools ==
    /\ \A k \in 1 .. Len(logs[1]) :
          IsCreated(logs[1][k]) =>
              LET body == CallOf(1, logs[1][k].iter).json[1]
              IN  /\ body.id \in Range(descriptor_pool[1])
                  /\ \A m \in 1 .. Len(body.submodelDescriptors) :
                        body.submodelDescriptors[m].id \in Range(submodel_pool[1])
    /\ Cardinality(Range(descriptor_pool[1])) = Len(descriptor_pool[1])
    /\ payload_template.id \notin Range(descriptor_pool[1])

\* C12 (claim C12): every create submits a copy of the body template in which the
\* top-level id and the id of every submodelDescriptors entry are freshly generated;
\* no step changes the template (it is data or data_big throughout); on success the
\* identifiers are appended to the pools, and the pool never holds a duplicate nor
\* the template's own id.
C12_IndependentCopy ==
    /\ [](C12_FreshCopies /\ C12_Pools /\ payload_template \in {data, data_big})
    /\ [][payload_template' = payload_template]_vars

\* Witness of C12: two successful creates over the template with a sub-resource; the
\* pools hold two identifiers each and the template is as it was.
C12_Witness ==
    /\ payload_template = data_big
    /\ Len(logs[1]) = 2
    /\ IsCreated(logs[1][1]) /\ IsCreated(logs[1][2])
    /\ Len(descriptor_pool[1]) = 2
    /\ Len(submodel_pool[1]) = 2
    /\ CallOf(1, 0).json[1].submodelDescriptors[1].id
          # CallOf(1, 1).json[1].submodelDescriptors[1].id

\* C13: once wait_for_http has returned False the run is over; it has issued no
\* request of the workload, logged no record, written no log file, and cleanup has
\* been executed.
C13_Aborted ==
    http_ready[1] = Some(FALSE) =>
        /\ pc[1] = "returned"
        /\ sent[1] = << >> /\ logs[1] = << >> /\ log_file[1] = << >>
        /\ i[1] = 0 /\ rngPos[1] = 0 /\ uuids = 0
        /\ cleanups[1] = 1 /\ stack[1] = "down"

\* C13: wait_for_http returns False only after polls none of which returned it True,
\* and the step on which it returns False is the step that runs cleanup.
C13_TimeoutStep ==
    (http_ready[1] = None /\ http_ready'[1] = Some(FALSE)) =>
        /\ polls[1] >= 1
        /\ cleanups'[1] = cleanups[1] + 1
        /\ sent'[1] = << >>

\* C13 (claim C13): if the readiness probe times out without ever seeing a response
\* status below 500, the run is aborted before any benchmark operation is attempted:
\* no request of the workload is issued, no record is logged, no log file is written,
\* and cleanup is executed.
C13_AbortOnTimeout == [](C13_Aborted) /\ [][C13_TimeoutStep]_vars

\* Witness of C13: the probe has timed out in a run configured with iterations to
\* execute; the run has returned with the stack shut down and nothing logged.
C13_Witness ==
    /\ http_ready[1] = Some(FALSE)
    /\ TOTAL_ITERS = 2
    /\ pc[1] = "returned"
    /\ cleanups[1] = 1
    /\ logs[1] = << >>

\* C14: a run in which the handler has been entered has exited, and cleanup has run
\* and shut the stack down.
C14_Exited ==
    signalled[1] # "no" =>
        /\ pc[1] = "exited"
        /\ cleanups[1] >= 1
        /\ stack[1] = "down"

\* C14: the step of the interruption runs cleanup and ends the process; it logs no
\* record and begins no further iteration, and no step follows it.
C14_InterruptStep ==
    /\ (signalled[1] = "no" /\ signalled'[1] # "no") =>
          /\ cleanups'[1] = cleanups[1] + 1
          /\ stack'[1] = "down"
          /\ pc'[1] = "exited"
          /\ logs'[1] = logs[1] /\ i'[1] = i[1] /\ sent'[1] = sent[1]
    /\ signalled[1] # "no" => UNCHANGED vars

\* C14 (claim C14): a SIGINT or SIGTERM arriving at any point of the run, also in the
\* middle of an operation's network call, leads to the cleanup of the test target
\* being executed before the process exits; the error handler of the operation does
\* not catch the interruption, and the loop does not continue.
C14_InterruptCleansUp == [](C14_Exited) /\ [][C14_InterruptStep]_vars

\* Witness of C14: the run is interrupted inside the try block of iteration 1 of 2;
\* it has exited with the stack shut down, one record logged and no log file.
C14_Witness ==
    /\ signalled[1] = "in_try"
    /\ pc[1] = "exited"
    /\ TOTAL_ITERS = 2
    /\ i[1] = 1 /\ Len(logs[1]) = 1
    /\ cleanups[1] = 1 /\ stack[1] = "down"
    /\ log_file[1] = << >>

\* ------------------------------------------------------------------ claims of the tool
\* The files written so far.
Written == {f \in DOMAIN files : files[f] # None}

\* records has been loaded and no record of it carries "iter".
NoIterations == records # None /\ \A k \in 1 .. Len(records[1]) : records[1][k].iter = None

\* C15 (claim C15) as the claim states it: on a well-formed array in which no record
\* carries the iteration field the invocation does not complete, what it fails with
\* is the descriptive error, and no file has been written then: neither the summary
\* report nor a chart.
C15_NoPartialOutput ==
    NoIterations =>
        /\ plot_pc # "done"
        /\ plot_pc = "failed" =>
              /\ error = Some("ValueError: No records with 'iter' found.")
              /\ Written = {}

\* The document is a list of records, or an object with the list under "records".
WellShaped(document) ==
    \/ document.type = "list"
    \/ document.type = "dict" /\ document.records # None /\ document.records[1].type = "list"

\* C16: a list and the object wrapping it under "records" are loaded as the same
\* record list, the records of the list in their order.
C16_Accepted ==
    (plot_pc # "load" /\ input_file # None /\ WellShaped(input_file[1])) =>
        /\ records # None
        /\ \/ input_file[1] = JsonList(records[1])
           \/ input_file[1] = JsonDict(Some(JsonList(records[1])))
        /\ error # Some("ValueError: Expected a JSON array of log records.")

\* C16: on every other shape the invocation fails with the error of load_records,
\* and no file is written.
C16_Rejected ==
    (plot_pc # "load" /\ input_file # None /\ ~WellShaped(input_file[1])) =>
        /\ plot_pc = "failed"
        /\ error = Some("ValueError: Expected a JSON array of log records.")
        /\ records = None
        /\ Written = {}

\* C16 (claim C16): load_records accepts a bare JSON array and an object wrapping the
\* array under the key records, giving the same record list for both; for every
\* other top-level shape (an object without records, an object whose records value
\* is no array, a scalar) the tool fails with a descriptive error before any summary
\* or chart file is written.
C16_LoadRecords == C16_Accepted /\ C16_Rejected

\* Witness of C16: an object wrapping two records has been loaded, and the tool has
\* gone on to write the summary report.
C16_Witness ==
    /\ input_file # None
    /\ input_file[1].type = "dict"
    /\ records # None
    /\ Len(records[1]) = 2
    /\ input_file[1].records = Some(JsonList(records[1]))
    /\ "summary_report" \in Written

\* records has been loaded, every record of it carries an iteration and an op, and
\* one of them carries neither duration field.
HasUntimedRecord ==
    /\ records # None
    /\ \A k \in 1 .. Len(records[1]) : records[1][k].iter # None /\ records[1][k].op # None
    /\ \E k \in 1 .. Len(records[1]) :
          records[1][k].duration_ns = None /\ records[1][k].duration_ms = None

\* C17 (claim C17) as the claim states it: a record that has an iteration and an op
\* but neither duration field does not make the invocation fail, also when all
\* records of its operation lack a duration, and it is counted in the total of its
\* operation in the summary report and in the success-rate chart.
C17_UntimedRecordIgnored ==
    HasUntimedRecord =>
        /\ plot_pc # "failed"
        /\ files["summary_report"] # None =>
              \A k \in 1 .. Len(files["summary_report"][1].operations) :
                  LET line == files["summary_report"][1].operations[k]
                  IN  line.total_count = Len(op_records(records[1], line.op))
        /\ files["success_rate"] # None =>
              \A k \in 1 .. Len(files["success_rate"][1]) :
                  LET bar == files["success_rate"][1][k]
                  IN  bar.total_count = Len(op_records(records[1], bar.op))

\* The sum of the durations, in the unit, of the records of the index set S.
SumOfRecords(S) ==
    LET idx == SelectSeq([k \in 1 .. Len(records[1]) |-> k], LAMBDA k : k \in S)
    IN  RSum([k \in 1 .. Len(idx) |->
                convert_duration(records[1][idx[k]].duration_ns,
                                 records[1][idx[k]].duration_ms, unit).value])

\* The records of label op that carry an iteration and a duration, and those among
\* them of iteration it.
Timed(op) ==
    {k \in 1 .. Len(records[1]) :
        /\ LabelOf(records[1][k]) = op
        /\ records[1][k].iter # None
        /\ (records[1][k].duration_ns # None \/ records[1][k].duration_ms # None)}
TimedAt(op, it) == {k \in Timed(op) : records[1][k].iter = Some(it)}

\* C18 (claim C18): for every operation type the cumulative runtime series has one
\* value per distinct iteration in sorted order, is non-decreasing, grows at an
\* iteration by the sum of the durations of the operation's records of that
\* iteration (by zero when there is none), and its value at the final iteration is
\* the sum of all the operation's per-iteration durations.
C18_CumulativeSeries ==
    files["cumulative_runtime"] # None =>
        LET chart == files["cumulative_runtime"][1]
            its == chart.iters
        IN  /\ \A k \in 1 .. (Len(its) - 1) : its[k] < its[k + 1]
            /\ {its[k] : k \in 1 .. Len(its)}
                  = {records[1][k].iter[1] :
                        k \in {j \in 1 .. Len(records[1]) : records[1][j].iter # None}}
            /\ {chart.lines[k].op : k \in 1 .. Len(chart.lines)}
                  = {LabelOf(records[1][k]) : k \in 1 .. Len(records[1])}
            /\ \A m \in 1 .. Len(chart.lines) :
                  LET line == chart.lines[m]
                      before(k) == IF k = 1 THEN Zero ELSE line.series[k - 1]
                  IN  /\ Len(line.series) = Len(its)
                      /\ \A k \in 1 .. Len(its) :
                            /\ RLeq(before(k), line.series[k])
                            /\ RSub(line.series[k], before(k))
                                  = SumOfRecords(TimedAt(line.op, its[k]))
                            /\ TimedAt(line.op, its[k]) = {} => line.series[k] = before(k)
                      /\ line.series[Len(its)] = SumOfRecords(Timed(line.op))

\* Witness of C18: the chart is written for a log with two timed records of create
\* in iteration 1 and none in iteration 0, where a read occurs.
C18_Witness ==
    /\ files["cumulative_runtime"] # None
    /\ files["cumulative_runtime"][1].iters = <<0, 1>>
    /\ Cardinality(TimedAt("create", 1)) = 2
    /\ TimedAt("create", 0) = {}
    /\ \E m \in 1 .. Len(files["cumulative_runtime"][1].lines) :
          /\ files["cumulative_runtime"][1].lines[m].op = "create"
          /\ files["cumulative_runtime"][1].lines[m].series[1] = Zero
          /\ RLess(Zero, files["cumulative_runtime"][1].lines[m].series[2])

\* The records whose op is op, and the successful ones among them.
RecordsOf(op) == {k \in 1 .. Len(records[1]) : records[1][k].op = Some(op)}
SuccessesOf(op) == {k \in RecordsOf(op) : records[1][k].ok = Some(TRUE)}

\* C19 (claim C19): for every operation with at least one record, the summary report
\* and the success-rate chart give the number of its records as the total, the
\* number of those whose own ok is true as the successes (a record without ok is no
\* success), and 100 * successes / total as the rate, which the report prints with
\* two decimals; eight successes out of ten records give exactly 80.0.
C19_SuccessRate ==
    /\ files["summary_report"] # None =>
          \A k \in 1 .. Len(files["summary_report"][1].operations) :
              LET line == files["summary_report"][1].operations[k]
              IN  RecordsOf(line.op) # {} =>
                      /\ line.total_count = Cardinality(RecordsOf(line.op))
                      /\ line.success_count = Cardinality(SuccessesOf(line.op))
                      /\ line.success_rate
                            = Format(Rat(100 * Cardinality(SuccessesOf(line.op)),
                                         Cardinality(RecordsOf(line.op))), 2)
    /\ files["success_rate"] # None =>
          /\ \A k \in 1 .. Len(files["success_rate"][1]) :
                LET bar == files["success_rate"][1][k]
                IN  (RecordsOf(bar.op) # {} /\ bar.op # "unknown") =>
                        /\ bar.total_count = Cardinality(RecordsOf(bar.op))
                        /\ bar.success_count = Cardinality(SuccessesOf(bar.op))
                        /\ bar.rate = Rat(100 * Cardinality(SuccessesOf(bar.op)),
                                          Cardinality(RecordsOf(bar.op)))
          /\ records[1] = LogEightOfTen =>
                /\ files["success_rate"][1][1].rate = FromInt(80)
                /\ files["summary_report"][1].operations[1].success_rate
                      = [negative |-> FALSE, whole |-> 80, decimals |-> 0, places |-> 2]

\* Witness of C19: the chart is written for the log of ten reads, eight of them
\* successful, and the bar of read is at 80.
C19_Witness ==
    /\ records = Some(LogEightOfTen)
    /\ files["success_rate"] # None
    /\ files["success_rate"][1][1].op = "read"
    /\ files["success_rate"][1][1].total_count = 10
    /\ files["success_rate"][1][1].success_count = 8
    /\ files["success_rate"][1][1].rate = FromInt(80)

\* The percentile of the claim: the value at rank (n - 1) * q / 100 of the sorted
\* list, the two neighbouring values weighted by the fraction of the rank.
LinearPercentile(ys, q) ==
    LET sorted == SortSeq(ys, LAMBDA a, b : RLess(a, b))
        rank100 == (Len(ys) - 1) * q
        below == (rank100 \div 100) + 1
        fraction == Rat(rank100 % 100, 100)
    IN  IF fraction = Zero THEN sorted[below]
        ELSE RAdd(RMul(sorted[below], RSub(FromInt(1), fraction)),
                  RMul(sorted[below + 1], fraction))

\* C20 (claim C20): for every operation with durations, the p50, p95 and p99 of the
\* percentile chart are the linear-interpolation percentiles of its durations; the
\* median, p95 and p99 of the summary report are those values printed with three
\* decimals, the median being p50; for the durations 10, 20, 30, 40, 100 p50 is 30
\* and p95 and p99 lie between 40 and 100.
C20_Percentiles ==
    /\ files["percentile_comparison"] # None =>
          /\ \A k \in 1 .. Len(files["percentile_comparison"][1]) :
                LET bar == files["percentile_comparison"][1][k]
                    ds == durations(records[1], bar.op, unit)
                IN  /\ bar.p50 = LinearPercentile(ds, 50)
                    /\ bar.p95 = LinearPercentile(ds, 95)
                    /\ bar.p99 = LinearPercentile(ds, 99)
          /\ records[1] = LogPercentiles =>
                LET bar == files["percentile_comparison"][1][1]
                IN  /\ bar.p50 = FromInt(30)
                    /\ RLess(FromInt(40), bar.p95) /\ RLess(bar.p95, FromInt(100))
                    /\ RLess(FromInt(40), bar.p99) /\ RLess(bar.p99, FromInt(100))
    /\ files["summary_report"] # None =>
          \A k \in 1 .. Len(files["summary_report"][1].operations) :
              LET line == files["summary_report"][1].operations[k]
                  ds == durations(records[1], line.op, unit)
              IN  /\ line.latency = None <=> ds = << >>
                  /\ line.latency # None =>
                        /\ line.latency[1].median = Format(LinearPercentile(ds, 50), 3)
                        /\ line.latency[1].p95 = Format(LinearPercentile(ds, 95), 3)
                        /\ line.latency[1].p99 = Format(LinearPercentile(ds, 99), 3)

\* Witness of C20: the percentile chart is written for the log with the durations
\* 30, 10, 100, 20 and 40 ms; p50 is 30, p95 is 88 and p99 is 97.6.
C20_Witness ==
    /\ records = Some(LogPercentiles)
    /\ plot_pc = "done"
    /\ files["percentile_comparison"][1][1].p50 = FromInt(30)
    /\ files["percentile_comparison"][1][1].p95 = FromInt(88)
    /\ files["percentile_comparison"][1][1].p99 = Rat(488, 5)
    /\ files["summary_report"][1].operations[1].latency[1].median
          = [negative |-> FALSE, whole |-> 30, decimals |-> 0, places |-> 3]

\* ------------------------------------------------------------------ claims of the plots
\* The duration of a record in unit u as claim C21 states it: a nanosecond duration
\* d is d / 10^k, a millisecond duration m is what the nanosecond duration m * 10^6
\* is.
Normalized(r, u) ==
    LET nanos == IF r.duration_ns # None THEN FromInt(r.duration_ns[1])
                 ELSE RMul(FromInt(r.duration_ms[1]), FromInt(Pow10(6)))
    IN  IF u = "ns" THEN nanos
        ELSE IF u = "us" THEN RDiv(nanos, FromInt(Pow10(3)))
        ELSE IF u = "ms" THEN RDiv(nanos, FromInt(Pow10(6)))
        ELSE RDiv(nanos, FromInt(Pow10(9)))

\* The sum of the normalized durations of the records of the index set S.
SumNormalized(S) ==
    LET idx == SelectSeq([k \in 1 .. Len(records[1]) |-> k], LAMBDA k : k \in S)
    IN  RSum([k \in 1 .. Len(idx) |-> Normalized(records[1][idx[k]], unit)])

\* C21 (claim C21) as the claim states it, for the plot of the test environment:
\* every record that carries a duration, in whichever field, enters the plot with
\* its duration normalized to the chosen unit, so that the last value of the series
\* of an operation is the sum of the normalized durations of its records.
C21_NormalizedInEveryTool ==
    (plot_pc = "done" /\ files["cumulative_runtime"] # None) =>
        \A m \in 1 .. Len(files["cumulative_runtime"][1].lines) :
            LET line == files["cumulative_runtime"][1].lines[m]
            IN  line.series[Len(line.series)] = SumNormalized(Timed(line.op))

\* The observations of op in the loaded records: the pairs (iteration, duration in
\* seconds) of its records that carry an iteration, ordered by iteration.
Observed(op) ==
    LET idx == SelectSeq([k \in 1 .. Len(records[1]) |-> k],
                         LAMBDA k : records[1][k].op = Some(op) /\ records[1][k].iter # None)
    IN  SortSeq([k \in 1 .. Len(idx) |->
                    <<records[1][idx[k]].iter[1], Normalized(records[1][idx[k]], "s")>>],
                LAMBDA a, b : a[1] < b[1] \/ (a[1] = b[1] /\ RLess(a[2], b[2])))

\* The sum of the durations of the w observations from position k on.
WindowTime(obs, k, w) == RSum([j \in 1 .. w |-> obs[k + j - 1][2]])

\* The window size of the claim: max(10, number of distinct iterations div 50).
ClaimWindow ==
    Max(10, Cardinality({records[1][k].iter[1] :
                            k \in {j \in 1 .. Len(records[1]) : records[1][j].iter # None}})
               \div 50)

\* C22 (claim C22) as the claim states it: the window is w = max(10, distinct
\* iterations div 50); an operation with n >= w observations has one value for each
\* of the n - w + 1 window positions, each being w over the sum of the window's
\* durations in seconds, and an operation with n < w observations has none.
C22_ValuePerWindow ==
    files["throughput_over_time"] # None =>
        LET chart == files["throughput_over_time"][1]
            w == ClaimWindow
        IN  /\ chart.window_size = w
            /\ \A m \in 1 .. Len(chart.lines) :
                  LET line == chart.lines[m]
                      obs == Observed(line.op)
                      n == Len(obs)
                  IN  IF n < w THEN line.points = << >>
                      ELSE /\ Len(line.points) = n - w + 1
                           /\ \A k \in 1 .. (n - w + 1) :
                                 RMul(line.points[k][2], WindowTime(obs, k, w)) = FromInt(w)

\* The window positions of obs whose durations sum to more than zero, in order.
PositiveWindows(obs, w) ==
    SelectSeq([k \in 1 .. (Len(obs) - w + 1) |-> k],
              LAMBDA k : RLess(Zero, WindowTime(obs, k, w)))

\* C22 (claim C22), amended: an operation with n >= w observations has one value
\* for each window position whose durations sum to more than zero, in the order of
\* the positions, each being w over that sum and drawn at the iteration of the
\* window's last observation; a window whose durations sum to zero has no value.
C22_ValuePerPositiveWindow ==
    files["throughput_over_time"] # None =>
        LET chart == files["throughput_over_time"][1]
            w == ClaimWindow
        IN  /\ chart.window_size = w
            /\ \A m \in 1 .. Len(chart.lines) :
                  LET line == chart.lines[m]
                      obs == Observed(line.op)
                      n == Len(obs)
                      positions == PositiveWindows(obs, w)
                  IN  IF n < w THEN line.points = << >>
                      ELSE /\ Len(line.points) = Len(positions)
                           /\ \A k \in 1 .. Len(positions) :
                                 /\ line.points[k][1] = obs[positions[k] + w - 1][1]
                                 /\ line.points[k][2]
                                       = RDiv(FromInt(w), WindowTime(obs, positions[k], w))

\* Witness of C22: the chart of the log with twelve reads and two creates has three
\* values for read, the first being 10 / 0.155 s, and none for create; and the chart
\* of the log of LargeIters iterations has a window of eleven.
C22_Witness ==
    /\ records = Some(LogTwelveReads)
    /\ files["throughput_over_time"] # None
    /\ files["throughput_over_time"][1].window_size = 10
    /\ files["throughput_over_time"][1].lines[1].op = "create"
    /\ files["throughput_over_time"][1].lines[1].points = << >>
    /\ files["throughput_over_time"][1].lines[2].op = "read"
    /\ Len(files["throughput_over_time"][1].lines[2].points) = 3
    /\ files["throughput_over_time"][1].lines[2].points[1] = <<9, Rat(10000, 155)>>

\* Witness of a window above ten: LargeIters distinct iterations give a window of
\* eleven and LargeIters - 10 values.
C22_WitnessLargeWindow ==
    /\ records = Some(LogLarge)
    /\ files["throughput_over_time"] # None
    /\ files["throughput_over_time"][1].window_size = 11
    /\ Len(files["throughput_over_time"][1].lines[1].points) = LargeIters - 10

\* The raw points of op in the loaded records: the pairs (iteration, duration in the
\* unit) of its records that carry both, in the order of the log.
RawPoints(op) ==
    LET idx == SelectSeq([k \in 1 .. Len(records[1]) |-> k],
                         LAMBDA k : k \in Timed(op))
    IN  [k \in 1 .. Len(idx) |->
            <<FromInt(records[1][idx[k]].iter[1]), Normalized(records[1][idx[k]], unit)>>]

\* The trend of claim C23 over points: the least-squares slope of the second
\* components against the first, over their mean, times 100; None, not applicable,
\* for fewer than two points, first components without variance or a mean of zero.
LeastSquaresTrend(points) ==
    IF Len(points) < 2 THEN None
    ELSE LET n == FromInt(Len(points))
             x_bar == RDiv(RSum([k \in 1 .. Len(points) |-> points[k][1]]), n)
             y_bar == RDiv(RSum([k \in 1 .. Len(points) |-> points[k][2]]), n)
             s_xx == RSum([k \in 1 .. Len(points) |->
                             RMul(RSub(points[k][1], x_bar), RSub(points[k][1], x_bar))])
             s_xy == RSum([k \in 1 .. Len(points) |->
                             RMul(RSub(points[k][1], x_bar), RSub(points[k][2], y_bar))])
         IN  IF s_xx = Zero \/ y_bar = Zero THEN None
             ELSE Some(RDiv(RMul(RDiv(s_xy, s_xx), FromInt(100)), y_bar))

\* The trend as it is printed: with three decimals, or None when not applicable.
PrintedTrend(points) ==
    IF LeastSquaresTrend(points) = None THEN None
    ELSE Some(Format(LeastSquaresTrend(points)[1], 3))

\* C23 (claim C23) as the claim states it: the trend printed for an operation in the
\* summary report, and the one in the label of its line of the cumulative-runtime
\* chart, is the least-squares slope of duration against iteration over the
\* operation's raw (iteration, duration) points, over the mean duration, times 100,
\* and not applicable for fewer than two points, iterations without variance or a
\* mean duration of zero.
C23_TrendOverIterations ==
    /\ files["summary_report"] # None =>
          \A m \in 1 .. Len(files["summary_report"][1].operations) :
              LET entry == files["summary_report"][1].operations[m]
              IN  entry.latency # None =>
                      entry.latency[1].trend = PrintedTrend(RawPoints(entry.op))
    /\ files["cumulative_runtime"] # None =>
          \A m \in 1 .. Len(files["cumulative_runtime"][1].lines) :
              LET line == files["cumulative_runtime"][1].lines[m]
              IN  line.label # None =>
                      line.label[1].trend = PrintedTrend(RawPoints(line.op))

\* The operation types that occur in the loaded records.
OpsInLog == {records[1][k].op[1] : k \in {j \in 1 .. Len(records[1]) : records[1][j].op # None}}

\* The entries of the summary report for op.
EntriesOf(op) ==
    {m \in 1 .. Len(files["summary_report"][1].operations) :
        files["summary_report"][1].operations[m].op = op}

\* The records of op that carry a duration.
WithDuration(op) ==
    {k \in RecordsOf(op) :
        records[1][k].duration_ns # None \/ records[1][k].duration_ms # None}

\* The entry of the report of the summary example for op: its count, its rate and,
\* if avg is not None, its mean latency.
ExampleEntry(op, count, rate, avg) ==
    \E m \in EntriesOf(op) :
        LET entry == files["summary_report"][1].operations[m]
        IN  /\ entry.total_count = count
            /\ entry.success_rate = Format(FromInt(rate), 2)
            /\ avg # None => entry.latency # None /\ entry.latency[1].avg = Format(avg[1], 3)

\* C24 (claim C24): the summary report has, for every operation type occurring in
\* the log, one entry with the number of its records, its success rate and the mean
\* of the durations of its records; for the log of the summary example it shows
\* create with count 2 and mean 11 ms, read and list with count 1 and 100%, and
\* search_paginated with count 1 and 0%, and the invocation on this log does not fail
\* and has written the report and the five charts when it is done.
C24_SummaryReport ==
    /\ files["summary_report"] # None =>
          \A op \in OpsInLog :
              /\ Cardinality(EntriesOf(op)) = 1
              /\ \A m \in EntriesOf(op) :
                    LET entry == files["summary_report"][1].operations[m]
                    IN  /\ entry.total_count = Cardinality(RecordsOf(op))
                        /\ entry.success_rate
                              = Format(Rat(100 * Cardinality(SuccessesOf(op)),
                                           Cardinality(RecordsOf(op))), 2)
                        /\ (entry.latency # None) <=> (WithDuration(op) # {})
                        /\ entry.latency # None =>
                              entry.latency[1].avg
                                 = Format(RDiv(SumNormalized(WithDuration(op)),
                                               FromInt(Cardinality(WithDuration(op)))), 3)
    /\ records = Some(LogSummary) =>
          /\ plot_pc # "failed"
          /\ error = None
          /\ files["summary_report"] # None =>
                /\ ExampleEntry("create", 2, 100, Some(FromInt(11)))
                /\ ExampleEntry("read", 1, 100, None)
                /\ ExampleEntry("list", 1, 100, None)
                /\ ExampleEntry("search_paginated", 1, 0, None)
          /\ plot_pc = "done" => Written = DOMAIN files

\* Witness of C24: the invocation on the log of the summary example is done, with
\* the report and the five charts written and create reported with mean 11.000.
C24_Witness ==
    /\ records = Some(LogSummary)
    /\ unit = "ms"
    /\ plot_pc = "done"
    /\ Written = DOMAIN files
    /\ \E m \in EntriesOf("create") :
          /\ files["summary_report"][1].operations[m].total_count = 2
          /\ files["summary_report"][1].operations[m].latency[1].avg
                = [negative |-> FALSE, whole |-> 11, decimals |-> 0, places |-> 3]

\* ------------------------------------------------------------------ claims of the weights
\* The configured selection weight of op.
WeightOf(op) == OP_WEIGHTS[CHOOSE k \in 1 .. Len(ops) : ops[k] = op]

\* C25 (claim C25) as the claim states it: an operation type whose weight is zero is
\* not executed at any iteration i >= W.
C25_ZeroWeightNeverExecuted ==
    signalled[1] = "no" =>
        \A k \in 1 .. Len(logs[1]) :
            k - 1 >= ClampedPrewarm => WeightOf(logs[1][k].op) > 0

\* C25 (claim C25), amended: the weighted draw never selects an operation type whose
\* weight is zero; such a type is executed at an iteration i >= W only as the
\* fallback, list or search_paginated, of a draw that selected read on an empty pool.
C25_ZeroWeightOnlyAsFallback ==
    signalled[1] = "no" =>
        \A k \in 1 .. Len(logs[1]) :
            k - 1 >= ClampedPrewarm =>
                /\ drawn[1][k] # None
                /\ WeightOf(drawn[1][k][1]) > 0
                /\ WeightOf(logs[1][k].op) = 0 =>
                      /\ drawn[1][k] = Some("get")
                      /\ PoolBefore(1, k) = << >>
                      /\ logs[1][k].op \in {"search_all", "search_limit100"}

\* Witness of C25: list and search_paginated have weight zero, no warm-up has filled
\* the pool, the draw of iteration 0 selects read and a search is executed.
C25_Witness ==
    /\ OP_WEIGHTS = <<1, 1, 0, 0>>
    /\ ClampedPrewarm = 0
    /\ signalled[1] = "no"
    /\ Len(logs[1]) >= 1
    /\ drawn[1][1] = Some("get")
    /\ logs[1][1].op \in {"search_all", "search_limit100"}

\* ------------------------------------------------------------------ claims of the labels
\* The labels of the loaded records: their operation types, and unknown for the
\* records without one.
LabelsInLog == {LabelOf(records[1][k]) : k \in 1 .. Len(records[1])}

\* C26 (claim C26) as the claim states it: for every label of the log, unknown
\* included, the total count and the success rate of the summary report are those of
\* the success-rate chart.
C26_ReportAgreesWithChart ==
    (files["summary_report"] # None /\ files["success_rate"] # None) =>
        \A op \in LabelsInLog :
            \E m \in EntriesOf(op) :
                \E b \in 1 .. Len(files["success_rate"][1]) :
                    LET entry == files["summary_report"][1].operations[m]
                        bar == files["success_rate"][1][b]
                    IN  /\ bar.op = op
                        /\ entry.total_count = bar.total_count
                        /\ entry.success_rate = Format(bar.rate, 2)


====
